---- MODULE Spec2Model ----
(***************************************************************************)
(* Travel planner backend: the request handlers of trips, itinerary items, *)
(* notes and reminders over the relational store declared in db/models.py. *)
(*                                                                         *)
(* Each handler is a pure operator from (store, path, payload) to a result *)
(* [status, detail, body, db]; the action of the same handler applies it.  *)
(* Optional values are sequences of length 0 (None) or 1; a text is a      *)
(* sequence of characters, so that str.strip() is computed, not assumed.   *)
(* Requests that other requests may come between are split at their        *)
(* statements, and db/session.py is modelled per worker thread.           *)
(***************************************************************************)
EXTENDS Integers, Sequences, FiniteSets, TLC

VARIABLES
    db,        \* the committed rows: [trips, destinations, items, notes, reminders]
    ids,       \* per table, how many primary keys uuid4 has handed out
    sessions,  \* requests between two of their statements: what the session holds
    resp,      \* the response of the last request that completed
    family,    \* the resource family the run's requests address
    engine,        \* db/session.py _engine: None or the engine it names
    SessionLocal,  \* db/session.py _SessionLocal: None or a factory and its bind
    created,       \* how many engines create_engine has built in this process
    threads,       \* per worker thread, the request it is handling
    environment    \* whether the POSTGRES_* variables are set, the store reachable

process == <<engine, SessionLocal, created, threads, environment>>

vars == <<db, ids, sessions, resp, family, process>>

----------------------------------------------------------------------------
(* Bounds of the exploration *)

MaxTrips == 2
MaxDestinations == 2
MaxItems == 2
MaxWideRows == 1
MaxTextLen == 2
MaxDate == 2
MaxDay == 2
MaxSessions == 2
MaxProvided == 2

MaxLimit == 2
MaxOffset == 2

MaxThreads == 2

(* Program constants *)

TripNameMaxLen == 200
ItemTitleMaxLen == 200
ReminderMessageMaxLen == 255
MinDay == 1

LimitMin == 1
LimitMax == 100
OffsetMin == 0
QMinLen == 1

----------------------------------------------------------------------------
(* Values *)

None == <<>>
Some(v) == <<v>>
Opt(S) == {None} \cup {Some(v) : v \in S}

Chars == {" ", "a"}
Texts == UNION {[1..n -> Chars] : n \in 0..MaxTextLen}

TripIds == 1..MaxTrips
DestinationIds == 1..MaxDestinations
Dates == 1..MaxDate
Days == MinDay..MaxDay

RECURSIVE LStrip(_)
LStrip(s) == IF s # <<>> /\ Head(s) = " " THEN LStrip(Tail(s)) ELSE s

RECURSIVE RStrip(_)
RStrip(s) == IF s # <<>> /\ s[Len(s)] = " " THEN RStrip(SubSeq(s, 1, Len(s) - 1)) ELSE s

\* str.strip(): the text without its leading and trailing whitespace
Strip(s) == RStrip(LStrip(s))

----------------------------------------------------------------------------
(* The store and the ORM session *)

EmptyDb == [trips |-> {}, destinations |-> {}, items |-> {}, notes |-> {}, reminders |-> {}]

RowsById(table, id) == {r \in table : r.id = id}

RowById(table, id) == CHOOSE r \in table : r.id = id

\* The attributes of obj that differ from the row the session loaded: the
\* columns the flush puts in its UPDATE statement.
Dirty(loaded, obj) == [f \in {g \in DOMAIN obj : obj[g] # loaded[g]} |-> obj[f]]

\* UPDATE <table> SET <dirty columns> WHERE id = ...
ApplyUpdate(row, dirty) == [f \in DOMAIN row |-> IF f \in DOMAIN dirty THEN dirty[f] ELSE row[f]]

\* A session that would flush the in-memory object of a failed request
RollbackWritesObject(table, loaded, obj) == (table \ {loaded}) \cup {obj}

\* get_db's finally: the session is closed without a commit, which rolls
\* back; the in-memory object `obj` of the failed request is discarded.
Rollback(table, loaded, obj) == table

\* db.add(obj); db.commit() of an object loaded in this request
Commit(table, loaded, obj) ==
    {IF r.id = loaded.id THEN ApplyUpdate(r, Dirty(loaded, obj)) ELSE r : r \in table}

Result(status, detail, body, store) ==
    [status |-> status, detail |-> detail, body |-> body, db |-> store]

Response(op, r) == [op |-> op, status |-> r.status, detail |-> r.detail, body |-> r.body]

ValidationDetail == "request validation error"
TripNotFound == "Trip not found"
EndDateDetail == "end_date must be on or after start_date"

----------------------------------------------------------------------------
(* Trips: schemas/travel.py TripBase, api/routes/trips.py *)

TripCreatePayloads == [name : Texts, start_date : Opt(Dates), end_date : Opt(Dates)]

\* A partial update provides at most MaxProvided of its fields
Provided(payload) == Cardinality({f \in DOMAIN payload : payload[f] # None})

TripUpdatePayloads ==
    {p \in [name : Opt(Texts), start_date : Opt(Dates), end_date : Opt(Dates)] :
        Provided(p) <= MaxProvided}

\* The payloads of the families that only need a trip to exist
PlainTripPayloads == [name : {<<"a">>}, start_date : {None}, end_date : {None}]

\* The payloads of the interleaved updates: dates only
DateUpdatePayloads == [name : {None}, start_date : Opt(Dates), end_date : Opt(Dates)]

\* A field of a JSON update body: absent, or present with null or with a value
BodyField(S) == {[present |-> FALSE, value |-> None]} \cup [present : {TRUE}, value : Opt(S)]

\* Field(None, ...): an absent field takes the default None; null parses to None
ParseField(raw) == IF raw.present THEN raw.value ELSE None

ParseBody(body) == [f \in DOMAIN body |-> ParseField(body[f])]

Present(body) == Cardinality({f \in DOMAIN body : body[f].present})

TripUpdateBodies ==
    {b \in [name : BodyField(Texts), start_date : BodyField(Dates),
            end_date : BodyField(Dates)] : Present(b) <= MaxProvided}

TripCreate_valid(payload) == Len(payload.name) <= TripNameMaxLen

TripUpdate_valid(payload) ==
    payload.name # None =>
        /\ Len(payload.name[1]) <= TripNameMaxLen
        /\ Strip(payload.name[1]) # <<>>

\* The comparison with its operands exchanged
EndBeforeStartReversed(s, e) == s # None /\ e # None /\ e[1] > s[1]

\* trip.start_date and trip.end_date and trip.end_date < trip.start_date
EndBeforeStart(s, e) == s # None /\ e # None /\ e[1] < s[1]

create_trip(store, id, payload, now) ==
    IF ~TripCreate_valid(payload)
    THEN Result(422, ValidationDetail, None, store)
    ELSE LET trip == [id |-> id,
                      name |-> Strip(payload.name),
                      start_date |-> payload.start_date,
                      end_date |-> payload.end_date,
                      created_at |-> now]
         IN  IF EndBeforeStart(trip.start_date, trip.end_date)
             THEN Result(422, EndDateDetail, None, store)
             ELSE Result(201, "", Some(trip), [store EXCEPT !.trips = @ \cup {trip}])

get_trip(store, trip_id) ==
    IF RowsById(store.trips, trip_id) = {}
    THEN Result(404, TripNotFound, None, store)
    ELSE Result(200, "", Some(RowById(store.trips, trip_id)), store)

\* A merge that would assign every field of the payload, None included
TripMergeAssignsAll(trip, payload) ==
    [trip EXCEPT
        !.name = IF payload.name # None THEN Strip(payload.name[1]) ELSE @,
        !.start_date = payload.start_date,
        !.end_date = payload.end_date]

\* update_trip, lines 198-205: the provided fields are assigned to the loaded object
TripMerge(trip, payload) ==
    [trip EXCEPT
        !.name = IF payload.name # None THEN Strip(payload.name[1]) ELSE @,
        !.start_date = IF payload.start_date # None THEN payload.start_date ELSE @,
        !.end_date = IF payload.end_date # None THEN payload.end_date ELSE @]

update_trip(store, trip_id, payload) ==
    IF ~TripUpdate_valid(payload)
    THEN Result(422, ValidationDetail, None, store)
    ELSE IF RowsById(store.trips, trip_id) = {}
    THEN Result(404, TripNotFound, None, store)
    ELSE LET trip == RowById(store.trips, trip_id)
             obj == TripMerge(trip, payload)
         IN  IF EndBeforeStart(obj.start_date, obj.end_date)
             THEN Result(422, EndDateDetail, None,
                         [store EXCEPT !.trips = Rollback(@, trip, obj)])
             ELSE LET trips2 == Commit(store.trips, trip, obj)
                  IN  Result(200, "", Some(RowById(trips2, trip_id)),
                             [store EXCEPT !.trips = trips2])

\* A schema whose notes.trip_id would not cascade
DeleteTripRowKeepsNotes(store, trip_id) ==
    [store EXCEPT
        !.trips = {r \in @ : r.id # trip_id},
        !.items = {r \in @ : r.trip_id # trip_id},
        !.reminders = {r \in @ : r.trip_id # trip_id}]

\* DELETE FROM trips WHERE id = ...; the foreign keys of the three child
\* tables are declared ON DELETE CASCADE (models.py), in the same statement.
DeleteTripRow(store, trip_id) ==
    [store EXCEPT
        !.trips = {r \in @ : r.id # trip_id},
        !.items = {r \in @ : r.trip_id # trip_id},
        !.notes = {r \in @ : r.trip_id # trip_id},
        !.reminders = {r \in @ : r.trip_id # trip_id}]

delete_trip(store, trip_id) ==
    IF RowsById(store.trips, trip_id) = {}
    THEN Result(404, TripNotFound, None, store)
    ELSE Result(204, "", None, DeleteTripRow(store, trip_id))

----------------------------------------------------------------------------
(* Destinations: db/models.py Destination.  No route inserts or deletes a  *)
(* destination; rows come and go by statements against the store itself.   *)

DestinationRows ==
    [name : {<<"a">>}, country : {None}, city : {None}, description : {None},
     popularity : {None}]

insert_destination(store, id, fields) ==
    [store EXCEPT !.destinations = @ \cup
        {[id |-> id, name |-> fields.name, country |-> fields.country,
          city |-> fields.city, description |-> fields.description,
          popularity |-> fields.popularity]}]

\* A schema whose itinerary_items.destination_id would cascade
delete_destination_cascading(store, dest_id) ==
    [store EXCEPT
        !.destinations = {r \in @ : r.id # dest_id},
        !.items = {r \in @ : r.destination_id # Some(dest_id)}]

\* DELETE FROM destinations WHERE id = ...; itinerary_items.destination_id is
\* declared ForeignKey("destinations.id", ondelete="SET NULL").
delete_destination(store, dest_id) ==
    [store EXCEPT
        !.destinations = {r \in @ : r.id # dest_id},
        !.items = {IF r.destination_id = Some(dest_id)
                   THEN [r EXCEPT !.destination_id = None]
                   ELSE r : r \in @}]

\* A store that would accept any destination_id
DestinationFkUnchecked(store, item) == TRUE

\* The foreign key of itinerary_items.destination_id, checked by the store
\* when the row is written.
DestinationFkHolds(store, item) ==
    item.destination_id # None => RowsById(store.destinations, item.destination_id[1]) # {}

IntegrityError == "IntegrityError"

----------------------------------------------------------------------------
(* Itinerary items: schemas/travel.py ItineraryItemBase, api/routes/itinerary.py *)

ItemIds == 1..MaxItems
Descriptions == {<<"a">>}
ItemNotFound == "Itinerary item not found"
TripIdMismatch == "payload.trip_id must match trip_id path parameter"
EndTimeDetail == "end_time must be on or after start_time"
TitleBlank == "title must not be blank"

ItemCreatePayloads ==
    [trip_id : TripIds, day : 0..MaxDay, title : Texts, description : Opt(Descriptions),
     start_time : Opt(Dates), end_time : Opt(Dates), destination_id : {None}]

ItemUpdatePayloads ==
    {p \in [day : Opt(0..MaxDay), title : Opt(Texts), description : Opt(Descriptions),
            start_time : Opt(Dates), end_time : Opt(Dates), destination_id : {None}] :
        Provided(p) <= MaxProvided}

\* The payloads of the cascade and references families: the destination reference only
PlainItemCreatePayloads ==
    [trip_id : TripIds, day : {1}, title : {<<"a">>}, description : {None},
     start_time : {None}, end_time : {None}, destination_id : Opt(DestinationIds)]

PlainItemUpdatePayloads ==
    [day : {None}, title : {None}, description : {None},
     start_time : {None}, end_time : {None}, destination_id : Opt(DestinationIds)]

ItemUpdateBodies ==
    {b \in [day : BodyField(0..MaxDay), title : BodyField(Texts),
            description : BodyField(Descriptions), start_time : BodyField(Dates),
            end_time : BodyField(Dates), destination_id : BodyField(DestinationIds)] :
        Present(b) <= MaxProvided}

ItineraryItemCreate_valid(payload) ==
    /\ payload.day >= MinDay
    /\ Len(payload.title) <= ItemTitleMaxLen

ItineraryItemUpdate_valid(payload) ==
    /\ payload.day # None => payload.day[1] >= MinDay
    /\ payload.title # None => Len(payload.title[1]) <= ItemTitleMaxLen

\* A lookup by id alone
ScopedRowsIgnoreTrip(table, trip_id, id) == {r \in table : r.id = id}

\* select(ItineraryItem).where(ItineraryItem.id == item_id, ItineraryItem.trip_id == trip_id)
ScopedRows(table, trip_id, id) == {r \in table : r.id = id /\ r.trip_id = trip_id}

ScopedRow(table, trip_id, id) == CHOOSE r \in ScopedRows(table, trip_id, id) : TRUE

create_itinerary_item(store, id, trip_id, payload) ==
    IF ~ItineraryItemCreate_valid(payload)
    THEN Result(422, ValidationDetail, None, store)
    ELSE IF RowsById(store.trips, trip_id) = {}
    THEN Result(404, TripNotFound, None, store)
    ELSE IF payload.trip_id # trip_id
    THEN Result(422, TripIdMismatch, None, store)
    ELSE IF EndBeforeStart(payload.start_time, payload.end_time)
    THEN Result(422, EndTimeDetail, None, store)
    ELSE LET item == [id |-> id,
                      trip_id |-> trip_id,
                      day |-> payload.day,
                      title |-> Strip(payload.title),
                      description |-> payload.description,
                      start_time |-> payload.start_time,
                      end_time |-> payload.end_time,
                      destination_id |-> payload.destination_id]
         IN  IF ~DestinationFkHolds(store, item)
             THEN Result(500, IntegrityError, None, store)
             ELSE Result(201, "", Some(item), [store EXCEPT !.items = @ \cup {item}])

get_itinerary_item(store, trip_id, item_id) ==
    IF RowsById(store.trips, trip_id) = {}
    THEN Result(404, TripNotFound, None, store)
    ELSE IF ScopedRows(store.items, trip_id, item_id) = {}
    THEN Result(404, ItemNotFound, None, store)
    ELSE Result(200, "", Some(ScopedRow(store.items, trip_id, item_id)), store)

\* update_itinerary_item, lines 229-230
ItemAssignDay(item, payload) ==
    IF payload.day # None THEN [item EXCEPT !.day = payload.day[1]] ELSE item

\* update_itinerary_item, lines 238-250
ItemAssignRest(item, payload) ==
    [item EXCEPT
        !.title = IF payload.title # None THEN Strip(payload.title[1]) ELSE @,
        !.description = IF payload.description # None THEN payload.description ELSE @,
        !.start_time = IF payload.start_time # None THEN payload.start_time ELSE @,
        !.end_time = IF payload.end_time # None THEN payload.end_time ELSE @,
        !.destination_id =
            IF payload.destination_id # None THEN payload.destination_id ELSE @]

\* A check that would read the fields of the request only
ItemTimesInvalidInPayload(obj, payload) ==
    EndBeforeStart(payload.start_time, payload.end_time)

\* update_itinerary_item, line 252: the check reads the merged object
ItemTimesInvalid(obj, payload) == EndBeforeStart(obj.start_time, obj.end_time)

update_itinerary_item(store, trip_id, item_id, payload) ==
    IF ~ItineraryItemUpdate_valid(payload)
    THEN Result(422, ValidationDetail, None, store)
    ELSE IF RowsById(store.trips, trip_id) = {}
    THEN Result(404, TripNotFound, None, store)
    ELSE IF ScopedRows(store.items, trip_id, item_id) = {}
    THEN Result(404, ItemNotFound, None, store)
    ELSE LET item == ScopedRow(store.items, trip_id, item_id)
             o1 == ItemAssignDay(item, payload)
             o2 == ItemAssignRest(o1, payload)
         IN  IF payload.title # None /\ Strip(payload.title[1]) = <<>>
             THEN Result(422, TitleBlank, None,
                         [store EXCEPT !.items = Rollback(@, item, o1)])
             ELSE IF ItemTimesInvalid(o2, payload)
             THEN Result(422, EndTimeDetail, None,
                         [store EXCEPT !.items = Rollback(@, item, o2)])
             ELSE IF ~DestinationFkHolds(store, o2)
             THEN Result(500, IntegrityError, None,
                         [store EXCEPT !.items = Rollback(@, item, o2)])
             ELSE LET items2 == Commit(store.items, item, o2)
                  IN  Result(200, "", Some(RowById(items2, item_id)),
                             [store EXCEPT !.items = items2])

delete_itinerary_item(store, trip_id, item_id) ==
    IF RowsById(store.trips, trip_id) = {}
    THEN Result(404, TripNotFound, None, store)
    ELSE IF ScopedRows(store.items, trip_id, item_id) = {}
    THEN Result(404, ItemNotFound, None, store)
    ELSE Result(204, "", None,
                [store EXCEPT !.items = @ \ ScopedRows(@, trip_id, item_id)])

----------------------------------------------------------------------------
(* Notes: schemas/travel.py NoteBase, api/routes/notes.py *)

NoteIds == 1..MaxWideRows
NoteNotFound == "Note not found"
ContentBlank == "content must not be blank"

NoteCreatePayloads == [trip_id : TripIds, content : Texts]

NoteUpdatePayloads == [content : Opt(Texts)]

PlainNoteCreatePayloads == [trip_id : TripIds, content : {<<"a">>}]

\* A handler that would file the note under the trip its payload names
create_note_unscoped(store, id, trip_id, payload, now) ==
    IF RowsById(store.trips, trip_id) = {}
    THEN Result(404, TripNotFound, None, store)
    ELSE IF Strip(payload.content) = <<>>
    THEN Result(422, ContentBlank, None, store)
    ELSE LET note == [id |-> id,
                      trip_id |-> payload.trip_id,
                      content |-> payload.content,
                      created_at |-> now]
         IN  Result(201, "", Some(note), [store EXCEPT !.notes = @ \cup {note}])

create_note(store, id, trip_id, payload, now) ==
    IF RowsById(store.trips, trip_id) = {}
    THEN Result(404, TripNotFound, None, store)
    ELSE IF payload.trip_id # trip_id
    THEN Result(422, TripIdMismatch, None, store)
    ELSE IF Strip(payload.content) = <<>>
    THEN Result(422, ContentBlank, None, store)
    ELSE LET note == [id |-> id,
                      trip_id |-> trip_id,
                      content |-> payload.content,
                      created_at |-> now]
         IN  Result(201, "", Some(note), [store EXCEPT !.notes = @ \cup {note}])

get_note(store, trip_id, note_id) ==
    IF RowsById(store.trips, trip_id) = {}
    THEN Result(404, TripNotFound, None, store)
    ELSE IF ScopedRows(store.notes, trip_id, note_id) = {}
    THEN Result(404, NoteNotFound, None, store)
    ELSE Result(200, "", Some(ScopedRow(store.notes, trip_id, note_id)), store)

\* A handler that would stamp the note again on every update
update_note_restamping(store, trip_id, note_id, payload) ==
    IF RowsById(store.trips, trip_id) = {}
    THEN Result(404, TripNotFound, None, store)
    ELSE IF ScopedRows(store.notes, trip_id, note_id) = {}
    THEN Result(404, NoteNotFound, None, store)
    ELSE LET note == ScopedRow(store.notes, trip_id, note_id)
         IN  IF payload.content # None /\ Strip(payload.content[1]) = <<>>
             THEN Result(422, ContentBlank, None, store)
             ELSE LET obj == [note EXCEPT
                                !.content = IF payload.content # None
                                            THEN payload.content[1] ELSE @,
                                !.created_at = (@ % MaxDate) + 1]
                      notes2 == Commit(store.notes, note, obj)
                  IN  Result(200, "", Some(RowById(notes2, note_id)),
                             [store EXCEPT !.notes = notes2])

update_note(store, trip_id, note_id, payload) ==
    IF RowsById(store.trips, trip_id) = {}
    THEN Result(404, TripNotFound, None, store)
    ELSE IF ScopedRows(store.notes, trip_id, note_id) = {}
    THEN Result(404, NoteNotFound, None, store)
    ELSE LET note == ScopedRow(store.notes, trip_id, note_id)
         IN  IF payload.content # None /\ Strip(payload.content[1]) = <<>>
             THEN Result(422, ContentBlank, None,
                         [store EXCEPT !.notes = Rollback(@, note, note)])
             ELSE LET obj == IF payload.content # None
                             THEN [note EXCEPT !.content = payload.content[1]]
                             ELSE note
                      notes2 == Commit(store.notes, note, obj)
                  IN  Result(200, "", Some(RowById(notes2, note_id)),
                             [store EXCEPT !.notes = notes2])

\* A handler that would answer 204 and leave the row
delete_note_keeping_row(store, trip_id, note_id) ==
    IF RowsById(store.trips, trip_id) = {}
    THEN Result(404, TripNotFound, None, store)
    ELSE IF ScopedRows(store.notes, trip_id, note_id) = {}
    THEN Result(404, NoteNotFound, None, store)
    ELSE Result(204, "", None, store)

delete_note(store, trip_id, note_id) ==
    IF RowsById(store.trips, trip_id) = {}
    THEN Result(404, TripNotFound, None, store)
    ELSE IF ScopedRows(store.notes, trip_id, note_id) = {}
    THEN Result(404, NoteNotFound, None, store)
    ELSE Result(204, "", None,
                [store EXCEPT !.notes = @ \ ScopedRows(@, trip_id, note_id)])

----------------------------------------------------------------------------
(* Reminders: schemas/travel.py ReminderBase, api/routes/reminders.py *)

ReminderIds == 1..MaxWideRows
ReminderNotFound == "Reminder not found"
MessageBlank == "message must not be blank"

ReminderCreatePayloads == [trip_id : TripIds, message : Texts, remind_at : Dates]

ReminderUpdatePayloads == [message : Opt(Texts), remind_at : Opt(Dates)]

PlainReminderCreatePayloads == [trip_id : TripIds, message : {<<"a">>}, remind_at : {1}]

ReminderCreate_valid(payload) == Len(payload.message) <= ReminderMessageMaxLen

ReminderUpdate_valid(payload) ==
    payload.message # None => Len(payload.message[1]) <= ReminderMessageMaxLen

\* A handler that would compare the payload's trip_id before it looks the trip up
create_reminder_mismatch_first(store, id, trip_id, payload, now) ==
    IF ~ReminderCreate_valid(payload)
    THEN Result(422, ValidationDetail, None, store)
    ELSE IF payload.trip_id # trip_id
    THEN Result(422, TripIdMismatch, None, store)
    ELSE IF RowsById(store.trips, trip_id) = {}
    THEN Result(404, TripNotFound, None, store)
    ELSE IF Strip(payload.message) = <<>>
    THEN Result(422, MessageBlank, None, store)
    ELSE LET reminder == [id |-> id,
                          trip_id |-> trip_id,
                          message |-> Strip(payload.message),
                          remind_at |-> payload.remind_at,
                          created_at |-> now]
         IN  Result(201, "", Some(reminder),
                    [store EXCEPT !.reminders = @ \cup {reminder}])

create_reminder(store, id, trip_id, payload, now) ==
    IF ~ReminderCreate_valid(payload)
    THEN Result(422, ValidationDetail, None, store)
    ELSE IF RowsById(store.trips, trip_id) = {}
    THEN Result(404, TripNotFound, None, store)
    ELSE IF payload.trip_id # trip_id
    THEN Result(422, TripIdMismatch, None, store)
    ELSE IF Strip(payload.message) = <<>>
    THEN Result(422, MessageBlank, None, store)
    ELSE LET reminder == [id |-> id,
                          trip_id |-> trip_id,
                          message |-> Strip(payload.message),
                          remind_at |-> payload.remind_at,
                          created_at |-> now]
         IN  Result(201, "", Some(reminder),
                    [store EXCEPT !.reminders = @ \cup {reminder}])

get_reminder(store, trip_id, reminder_id) ==
    IF RowsById(store.trips, trip_id) = {}
    THEN Result(404, TripNotFound, None, store)
    ELSE IF ScopedRows(store.reminders, trip_id, reminder_id) = {}
    THEN Result(404, ReminderNotFound, None, store)
    ELSE Result(200, "", Some(ScopedRow(store.reminders, trip_id, reminder_id)), store)

update_reminder(store, trip_id, reminder_id, payload) ==
    IF ~ReminderUpdate_valid(payload)
    THEN Result(422, ValidationDetail, None, store)
    ELSE IF RowsById(store.trips, trip_id) = {}
    THEN Result(404, TripNotFound, None, store)
    ELSE IF ScopedRows(store.reminders, trip_id, reminder_id) = {}
    THEN Result(404, ReminderNotFound, None, store)
    ELSE LET reminder == ScopedRow(store.reminders, trip_id, reminder_id)
         IN  IF payload.message # None /\ Strip(payload.message[1]) = <<>>
             THEN Result(422, MessageBlank, None,
                         [store EXCEPT !.reminders = Rollback(@, reminder, reminder)])
             ELSE LET obj == [reminder EXCEPT
                                !.message = IF payload.message # None
                                            THEN Strip(payload.message[1]) ELSE @,
                                !.remind_at = IF payload.remind_at # None
                                              THEN payload.remind_at[1] ELSE @]
                      reminders2 == Commit(store.reminders, reminder, obj)
                  IN  Result(200, "", Some(RowById(reminders2, reminder_id)),
                             [store EXCEPT !.reminders = reminders2])

\* A handler that would delete every reminder of the trip
delete_reminder_of_trip(store, trip_id, reminder_id) ==
    IF RowsById(store.trips, trip_id) = {}
    THEN Result(404, TripNotFound, None, store)
    ELSE IF ScopedRows(store.reminders, trip_id, reminder_id) = {}
    THEN Result(404, ReminderNotFound, None, store)
    ELSE Result(204, "", None,
                [store EXCEPT !.reminders = {r \in @ : r.trip_id # trip_id}])

delete_reminder(store, trip_id, reminder_id) ==
    IF RowsById(store.trips, trip_id) = {}
    THEN Result(404, TripNotFound, None, store)
    ELSE IF ScopedRows(store.reminders, trip_id, reminder_id) = {}
    THEN Result(404, ReminderNotFound, None, store)
    ELSE Result(204, "", None,
                [store EXCEPT !.reminders = @ \ ScopedRows(@, trip_id, reminder_id)])

----------------------------------------------------------------------------
(* Lists and search: api/routes/*.py list_*, api/routes/destinations.py.   *)
(* ORDER BY fixes the order of rows with different keys only; rows with    *)
(* equal keys come in any order, chosen anew by every statement, so a list *)
(* handler is the set of responses the store may give.                     *)

Limits == 0..MaxLimit
Offsets == 0..MaxOffset

\* Query(..., ge=1, le=100) for limit, Query(0, ge=0) for offset
ListQuery_valid(limit, offset) ==
    limit >= LimitMin /\ limit <= LimitMax /\ offset >= OffsetMin

ListResponse(total, limit, offset, items) ==
    [status |-> 200, detail |-> "",
     body |-> Some([total |-> total, limit |-> limit, offset |-> offset, items |-> items])]

ListError(status, detail) == [status |-> status, detail |-> detail, body |-> None]

\* The collation of text: characters by code point
CharRank(c) ==
    CASE c = " " -> 32 [] c = "%" -> 37 [] c = "A" -> 65 [] c = "_" -> 95
      [] c = "a" -> 97 [] c = "b" -> 98

CmpInt(a, b) == IF a < b THEN -1 ELSE IF a > b THEN 1 ELSE 0

RECURSIVE CmpText(_, _)
CmpText(a, b) ==
    IF a = <<>> THEN (IF b = <<>> THEN 0 ELSE -1)
    ELSE IF b = <<>> THEN 1
    ELSE IF Head(a) = Head(b) THEN CmpText(Tail(a), Tail(b))
    ELSE CmpInt(CharRank(Head(a)), CharRank(Head(b)))

\* col.asc().nulls_last()
CmpAscNullsLast(a, b) ==
    IF a = None THEN (IF b = None THEN 0 ELSE 1)
    ELSE IF b = None THEN -1
    ELSE CmpInt(a[1], b[1])

\* desc(col).nulls_last()
CmpDescNullsLast(a, b) ==
    IF a = None THEN (IF b = None THEN 0 ELSE 1)
    ELSE IF b = None THEN -1
    ELSE CmpInt(b[1], a[1])

RowPermutations(rows) ==
    {s \in [1..Cardinality(rows) -> rows] :
        \A i, j \in 1..Cardinality(rows) : i # j => s[i] # s[j]}

\* The orders in which a statement may return the rows when its ORDER BY
\* puts x before y for the pairs <<x, y>> of before
Orderings(rows, before) ==
    {s \in RowPermutations(rows) :
        \A i, j \in 1..Len(s) : i < j => <<s[j], s[i]>> \notin before}

Min(a, b) == IF a < b THEN a ELSE b

\* A page that would run to the end of the result
PageIgnoringLimit(s, limit, offset) == SubSeq(s, offset + 1, Len(s))

\* .limit(limit).offset(offset)
Page(s, limit, offset) == SubSeq(s, offset + 1, Min(offset + limit, Len(s)))

SortBys == {"created_at", "name"}
SortDirs == {"asc", "desc"}

\* _apply_trip_sorting: one column, ascending or descending
TripOrder(x, y, sort_by, sort_dir) ==
    LET c == IF sort_by = "name" THEN CmpText(x.name, y.name)
             ELSE CmpInt(x.created_at, y.created_at)
    IN  IF sort_dir = "asc" THEN c ELSE 0 - c

list_trips(store, limit, offset, sort_by, sort_dir) ==
    IF ~ListQuery_valid(limit, offset)
    THEN {ListError(422, ValidationDetail)}
    ELSE {ListResponse(Cardinality(store.trips), limit, offset, Page(s, limit, offset)) :
            s \in Orderings(store.trips,
                {<<x, y>> \in store.trips \X store.trips :
                    TripOrder(x, y, sort_by, sort_dir) < 0})}

\* An order that would put the items without start_time first
ItemOrderNullsFirst(x, y) ==
    LET d == CmpInt(x.day, y.day)
        t == CmpAscNullsLast(y.start_time, x.start_time)
    IN  IF d # 0 THEN d ELSE IF t # 0 THEN t ELSE CmpText(x.title, y.title)

\* order_by(day.asc(), start_time.asc().nulls_last(), title.asc())
ItemOrder(x, y) ==
    LET d == CmpInt(x.day, y.day)
        t == CmpAscNullsLast(x.start_time, y.start_time)
    IN  IF d # 0 THEN d ELSE IF t # 0 THEN t ELSE CmpText(x.title, y.title)

OfTrip(table, trip_id) == {r \in table : r.trip_id = trip_id}

list_itinerary_items(store, trip_id, limit, offset) ==
    IF ~ListQuery_valid(limit, offset)
    THEN {ListError(422, ValidationDetail)}
    ELSE IF RowsById(store.trips, trip_id) = {}
    THEN {ListError(404, TripNotFound)}
    ELSE {ListResponse(Cardinality(OfTrip(store.items, trip_id)), limit, offset,
                       Page(s, limit, offset)) :
            s \in Orderings(OfTrip(store.items, trip_id),
                {<<x, y>> \in store.items \X store.items : ItemOrder(x, y) < 0})}

\* order_by(Note.created_at.desc())
NoteOrder(x, y) == CmpInt(y.created_at, x.created_at)

list_notes(store, trip_id, limit, offset) ==
    IF ~ListQuery_valid(limit, offset)
    THEN {ListError(422, ValidationDetail)}
    ELSE IF RowsById(store.trips, trip_id) = {}
    THEN {ListError(404, TripNotFound)}
    ELSE {ListResponse(Cardinality(OfTrip(store.notes, trip_id)), limit, offset,
                       Page(s, limit, offset)) :
            s \in Orderings(OfTrip(store.notes, trip_id),
                {<<x, y>> \in store.notes \X store.notes : NoteOrder(x, y) < 0})}

\* order_by(Reminder.remind_at.desc())
ReminderOrder(x, y) == CmpInt(y.remind_at, x.remind_at)

list_reminders(store, trip_id, limit, offset) ==
    IF ~ListQuery_valid(limit, offset)
    THEN {ListError(422, ValidationDetail)}
    ELSE IF RowsById(store.trips, trip_id) = {}
    THEN {ListError(404, TripNotFound)}
    ELSE {ListResponse(Cardinality(OfTrip(store.reminders, trip_id)), limit, offset,
                       Page(s, limit, offset)) :
            s \in Orderings(OfTrip(store.reminders, trip_id),
                {<<x, y>> \in store.reminders \X store.reminders :
                    ReminderOrder(x, y) < 0})}

QueryChars == {" ", "a", "A", "b", "%", "_"}
Queries == UNION {[1..n -> QueryChars] : n \in 0..MaxTextLen}
QBlank == "q must not be blank"

LowerChar(c) == IF c = "A" THEN "a" ELSE c

LowerText(t) == [i \in 1..Len(t) |-> LowerChar(t[i])]

\* text LIKE pattern: % stands for any text, _ for any one character
RECURSIVE Like(_, _)
Like(t, pattern) ==
    IF pattern = <<>> THEN t = <<>>
    ELSE IF Head(pattern) = "%"
    THEN Like(t, Tail(pattern)) \/ (t # <<>> /\ Like(Tail(t), pattern))
    ELSE /\ t # <<>>
         /\ (Head(pattern) = "_" \/ Head(pattern) = Head(t))
         /\ Like(Tail(t), Tail(pattern))

\* column.ilike(pattern): NULL matches nothing
ILike(column, pattern) ==
    column # None /\ Like(LowerText(column[1]), LowerText(pattern))

\* or_(*conditions), lines 62-68
WhereClause(d, pattern, include_country, include_city) ==
    \/ ILike(Some(d.name), pattern)
    \/ include_country /\ ILike(d.country, pattern)
    \/ include_city /\ ILike(d.city, pattern)

\* order_by(desc(popularity).nulls_last(), name.asc())
DestinationOrder(x, y) ==
    LET c == CmpDescNullsLast(x.popularity, y.popularity)
    IN  IF c # 0 THEN c ELSE CmpText(x.name, y.name)

DestinationSearchResult(row) ==
    [id |-> row.id, name |-> row.name, country |-> row.country, city |-> row.city,
     popularity |-> row.popularity, score |-> None]

search_destinations(store, q, limit, offset, include_country, include_city) ==
    IF Len(q) < QMinLen \/ ~ListQuery_valid(limit, offset)
    THEN {ListError(422, ValidationDetail)}
    ELSE IF Strip(q) = <<>>
    THEN {ListError(422, QBlank)}
    ELSE LET pattern == <<"%">> \o Strip(q) \o <<"%">>
             rows == {d \in store.destinations :
                        WhereClause(d, pattern, include_country, include_city)}
         IN  {ListResponse(Cardinality(rows), limit, offset,
                           [i \in DOMAIN Page(s, limit, offset) |->
                                DestinationSearchResult(Page(s, limit, offset)[i])]) :
                s \in Orderings(rows,
                    {<<x, y>> \in rows \X rows : DestinationOrder(x, y) < 0})}

----------------------------------------------------------------------------
(* Actions: one request, handled to completion *)

CreateTrip(payload, now) ==
    /\ ids.trips < MaxTrips
    /\ LET r == create_trip(db, ids.trips + 1, payload, now)
       IN  /\ db' = r.db
           /\ ids' = IF r.status = 201 THEN [ids EXCEPT !.trips = @ + 1] ELSE ids
           /\ resp' = Response("create_trip", r)
    /\ UNCHANGED <<sessions, family, process>>

GetTrip(trip_id) ==
    /\ resp' = Response("get_trip", get_trip(db, trip_id))
    /\ UNCHANGED <<db, ids, sessions, family, process>>

UpdateTrip(trip_id, payload) ==
    /\ LET r == update_trip(db, trip_id, payload)
       IN  /\ db' = r.db
           /\ resp' = Response("update_trip", r)
    /\ UNCHANGED <<ids, sessions, family, process>>

DeleteTrip(trip_id) ==
    /\ LET r == delete_trip(db, trip_id)
       IN  /\ db' = r.db
           /\ resp' = Response("delete_trip", r)
    /\ UNCHANGED <<ids, sessions, family, process>>

InsertDestination(fields) ==
    /\ ids.destinations < MaxDestinations
    /\ db' = insert_destination(db, ids.destinations + 1, fields)
    /\ ids' = [ids EXCEPT !.destinations = @ + 1]
    /\ resp' = [op |-> "insert_destination", status |-> 0, detail |-> "", body |-> None]
    /\ UNCHANGED <<sessions, family, process>>

DeleteDestination(dest_id) ==
    /\ RowsById(db.destinations, dest_id) # {}
    /\ db' = delete_destination(db, dest_id)
    /\ resp' = [op |-> "delete_destination", status |-> 0, detail |-> "", body |-> None]
    /\ UNCHANGED <<ids, sessions, family, process>>

CreateItineraryItem(trip_id, payload, max) ==
    /\ ids.items < max
    /\ LET r == create_itinerary_item(db, ids.items + 1, trip_id, payload)
       IN  /\ db' = r.db
           /\ ids' = IF r.status = 201 THEN [ids EXCEPT !.items = @ + 1] ELSE ids
           /\ resp' = Response("create_itinerary_item", r)
    /\ UNCHANGED <<sessions, family, process>>

GetItineraryItem(trip_id, item_id) ==
    /\ resp' = Response("get_itinerary_item", get_itinerary_item(db, trip_id, item_id))
    /\ UNCHANGED <<db, ids, sessions, family, process>>

UpdateItineraryItem(trip_id, item_id, payload) ==
    /\ LET r == update_itinerary_item(db, trip_id, item_id, payload)
       IN  /\ db' = r.db
           /\ resp' = Response("update_itinerary_item", r)
    /\ UNCHANGED <<ids, sessions, family, process>>

DeleteItineraryItem(trip_id, item_id) ==
    /\ LET r == delete_itinerary_item(db, trip_id, item_id)
       IN  /\ db' = r.db
           /\ resp' = Response("delete_itinerary_item", r)
    /\ UNCHANGED <<ids, sessions, family, process>>

CreateNote(trip_id, payload, now) ==
    /\ ids.notes < MaxWideRows
    /\ LET r == create_note(db, ids.notes + 1, trip_id, payload, now)
       IN  /\ db' = r.db
           /\ ids' = IF r.status = 201 THEN [ids EXCEPT !.notes = @ + 1] ELSE ids
           /\ resp' = Response("create_note", r)
    /\ UNCHANGED <<sessions, family, process>>

GetNote(trip_id, note_id) ==
    /\ resp' = Response("get_note", get_note(db, trip_id, note_id))
    /\ UNCHANGED <<db, ids, sessions, family, process>>

UpdateNote(trip_id, note_id, payload) ==
    /\ LET r == update_note(db, trip_id, note_id, payload)
       IN  /\ db' = r.db
           /\ resp' = Response("update_note", r)
    /\ UNCHANGED <<ids, sessions, family, process>>

DeleteNote(trip_id, note_id) ==
    /\ LET r == delete_note(db, trip_id, note_id)
       IN  /\ db' = r.db
           /\ resp' = Response("delete_note", r)
    /\ UNCHANGED <<ids, sessions, family, process>>

CreateReminder(trip_id, payload, now) ==
    /\ ids.reminders < MaxWideRows
    /\ LET r == create_reminder(db, ids.reminders + 1, trip_id, payload, now)
       IN  /\ db' = r.db
           /\ ids' = IF r.status = 201 THEN [ids EXCEPT !.reminders = @ + 1] ELSE ids
           /\ resp' = Response("create_reminder", r)
    /\ UNCHANGED <<sessions, family, process>>

GetReminder(trip_id, reminder_id) ==
    /\ resp' = Response("get_reminder", get_reminder(db, trip_id, reminder_id))
    /\ UNCHANGED <<db, ids, sessions, family, process>>

UpdateReminder(trip_id, reminder_id, payload) ==
    /\ LET r == update_reminder(db, trip_id, reminder_id, payload)
       IN  /\ db' = r.db
           /\ resp' = Response("update_reminder", r)
    /\ UNCHANGED <<ids, sessions, family, process>>

DeleteReminder(trip_id, reminder_id) ==
    /\ LET r == delete_reminder(db, trip_id, reminder_id)
       IN  /\ db' = r.db
           /\ resp' = Response("delete_reminder", r)
    /\ UNCHANGED <<ids, sessions, family, process>>

----------------------------------------------------------------------------
(* update_trip as two requests may interleave: each session SELECTs the    *)
(* row, assigns and validates in memory, and later flushes its UPDATE.     *)

SessionIds == 1..MaxSessions

\* lines 196-211: load, merge, validate; the session keeps its dirty columns
UpdateTripLoad(s, trip_id, payload) ==
    /\ sessions[s] = None
    /\ LET r == update_trip(db, trip_id, payload)
       IN  IF r.status = 200
           THEN LET trip == RowById(db.trips, trip_id)
                IN  /\ sessions' = [sessions EXCEPT ![s] =
                            Some([trip_id |-> trip_id,
                                  dirty |-> Dirty(trip, TripMerge(trip, payload))])]
                    /\ UNCHANGED resp
           ELSE /\ resp' = Response("update_trip", r)
                /\ UNCHANGED sessions
    /\ UNCHANGED <<db, ids, family, process>>

\* lines 213-216: the UPDATE of the dirty columns, against the row as it is
\* now; a row deleted meanwhile matches nothing (StaleDataError).
UpdateTripCommit(s) ==
    /\ sessions[s] # None
    /\ LET p == sessions[s][1]
       IN  IF RowsById(db.trips, p.trip_id) = {}
           THEN /\ resp' = [op |-> "update_trip", status |-> 500,
                            detail |-> "StaleDataError", body |-> None]
                /\ UNCHANGED db
           ELSE LET row == ApplyUpdate(RowById(db.trips, p.trip_id), p.dirty)
                IN  /\ db' = [db EXCEPT !.trips =
                                {IF r.id = p.trip_id THEN row ELSE r : r \in @}]
                    /\ resp' = [op |-> "update_trip", status |-> 200,
                                detail |-> "", body |-> Some(row)]
    /\ sessions' = [sessions EXCEPT ![s] = None]
    /\ UNCHANGED <<ids, family, process>>

----------------------------------------------------------------------------
(* The process: db/session.py and the requests that go through get_db.     *)
(* FastAPI runs a `def` dependency and a `def` handler on worker threads,  *)
(* so two requests interleave between the statements of _get_engine and    *)
(* _get_sessionmaker; a thread's pc names the statement it executes next.  *)

ThreadIds == 1..MaxThreads

Idle ==
    [pc |-> "idle", op |-> "", args |-> None, session |-> None, pending |-> None,
     status |-> 0]

\* The globals of db/session.py once a first request has initialised them
WarmProcess ==
    /\ engine = Some(1)
    /\ SessionLocal = Some([bind |-> 1])
    /\ created = 1
    /\ threads = [t \in ThreadIds |-> Idle]
    /\ environment = [configured |-> TRUE, available |-> TRUE]

\* lines 16-17: the globals of a process that has served no request yet
ColdProcess ==
    /\ engine = None
    /\ SessionLocal = None
    /\ created = 0
    /\ threads = [t \in ThreadIds |-> Idle]

Unhandled(op, error) == [op |-> op, status |-> 500, detail |-> error, body |-> None]

\* An exception that leaves get_db before its try: no session, a 500
Raise(t, error) ==
    /\ threads' = [threads EXCEPT ![t] = [Idle EXCEPT !.status = 500]]
    /\ resp' = Unhandled(threads[t].op, error)

Goto(t, pc) == threads' = [threads EXCEPT ![t].pc = pc]

\* A request arrives; Depends(get_db) enters get_db, line 61
Begin(t, op, args) ==
    /\ threads[t].pc = "idle"
    /\ threads' = [threads EXCEPT ![t] =
            [Idle EXCEPT !.pc = "get_sessionmaker", !.op = op, !.args = args]]
    /\ UNCHANGED <<db, ids, sessions, resp, family, engine, SessionLocal, created,
                   environment>>

\* _get_sessionmaker, lines 41-42
SessionmakerCheck(t) ==
    /\ threads[t].pc = "get_sessionmaker"
    /\ Goto(t, IF SessionLocal = None THEN "get_engine" ELSE "assert")
    /\ UNCHANGED <<db, ids, sessions, resp, family, engine, SessionLocal, created,
                   environment>>

\* _get_engine, lines 30-31
EngineCheck(t) ==
    /\ threads[t].pc = "get_engine"
    /\ Goto(t, IF engine # None /\ SessionLocal # None THEN "assert" ELSE "get_settings")
    /\ UNCHANGED <<db, ids, sessions, resp, family, engine, SessionLocal, created,
                   environment>>

\* _get_engine, line 33: get_settings raises RuntimeError when a variable is missing
GetSettings(t) ==
    /\ threads[t].pc = "get_settings"
    /\ IF environment.configured
       THEN Goto(t, "create_engine") /\ UNCHANGED resp
       ELSE Raise(t, "RuntimeError")
    /\ UNCHANGED <<db, ids, sessions, family, engine, SessionLocal, created, environment>>

\* _get_engine, line 34: a new engine, assigned to the global
CreateEngine(t) ==
    /\ threads[t].pc = "create_engine"
    /\ created' = created + 1
    /\ engine' = Some(created + 1)
    /\ Goto(t, "sessionmaker")
    /\ UNCHANGED <<db, ids, sessions, resp, family, SessionLocal, environment>>

\* _get_engine, lines 35-36: sessionmaker(bind=_engine) reads the global again
MakeSessionmaker(t) ==
    /\ threads[t].pc = "sessionmaker"
    /\ SessionLocal' = Some([bind |-> engine[1]])
    /\ Goto(t, "assert")
    /\ UNCHANGED <<db, ids, sessions, resp, family, engine, created, environment>>

\* _get_sessionmaker, lines 44-45, and get_db, line 61: the factory the global
\* names now makes the session of the request
OpenSession(t) ==
    /\ threads[t].pc = "assert"
    /\ IF SessionLocal = None
       THEN Raise(t, "AssertionError")
       ELSE /\ threads' = [threads EXCEPT
                    ![t].pc = "yield",
                    ![t].session = Some([bind |-> SessionLocal[1].bind, closes |-> 0])]
            /\ UNCHANGED resp
    /\ UNCHANGED <<db, ids, sessions, family, engine, SessionLocal, created, environment>>

\* api/main.py db_health_check, lines 92-97.  Line 97 returns a tuple, and
\* the route declares no status code: FastAPI encodes the tuple as a JSON
\* array and answers with the default 200.
db_health_check(store, available) ==
    IF available
    THEN Result(200, "", Some([database |-> "ok"]), store)
    ELSE Result(200, "",
                Some([array |-> <<[database |-> "unavailable",
                                   detail |-> "OperationalError"], 503>>]),
                store)

\* The object update_itinerary_item holds in its session when it ends
\* without a commit: lines 229-258
Uncommitted(store, trip_id, item_id, payload) ==
    IF \/ ~ItineraryItemUpdate_valid(payload)
       \/ RowsById(store.trips, trip_id) = {}
       \/ ScopedRows(store.items, trip_id, item_id) = {}
    THEN None
    ELSE LET item == ScopedRow(store.items, trip_id, item_id)
             o1 == ItemAssignDay(item, payload)
         IN  Some([loaded |-> item,
                   obj |-> IF payload.title # None /\ Strip(payload.title[1]) = <<>>
                           THEN o1
                           ELSE ItemAssignRest(o1, payload)])

\* The handler runs at get_db's yield, line 63.  A store that is down fails
\* the first statement of a CRUD handler with OperationalError.
Handle(t) ==
    /\ threads[t].pc = "yield"
    /\ LET a == threads[t].args[1]
           r == IF threads[t].op = "db_health_check"
                THEN db_health_check(db, environment.available)
                ELSE IF ~environment.available
                THEN Result(500, "OperationalError", None, db)
                ELSE update_itinerary_item(db, a.trip_id, a.item_id, a.payload)
           held == IF threads[t].op = "db_health_check" \/ ~environment.available
                      \/ r.status = 200
                   THEN None
                   ELSE Uncommitted(db, a.trip_id, a.item_id, a.payload)
       IN  /\ db' = IF r.status = 200 THEN r.db ELSE db
           /\ resp' = Response(threads[t].op, r)
           /\ threads' = [threads EXCEPT ![t].pc = "finally", ![t].pending = held,
                                         ![t].status = r.status]
    /\ UNCHANGED <<ids, sessions, family, engine, SessionLocal, created, environment>>

\* A generator that would close its session only after a handler that returned
get_db_exit_on_return(session, status) ==
    IF status < 400 THEN [session EXCEPT !.closes = @ + 1] ELSE session

\* get_db, lines 64-65: the finally runs db.close() whatever the handler did
get_db_exit(session, status) == [session EXCEPT !.closes = @ + 1]

\* get_db, line 65: Session.close() rolls the transaction back and drops the
\* objects the session held
Close(t) ==
    /\ threads[t].pc = "finally"
    /\ LET th == threads[t]
       IN  /\ db' = IF th.pending = None THEN db
                    ELSE [db EXCEPT !.items =
                            Rollback(@, th.pending[1].loaded, th.pending[1].obj)]
           /\ threads' = [threads EXCEPT ![t] =
                [Idle EXCEPT !.session = Some(get_db_exit(th.session[1], th.status)),
                             !.status = th.status]]
    /\ UNCHANGED <<ids, sessions, resp, family, engine, SessionLocal, created,
                   environment>>

\* The store goes down, or comes back
Outage ==
    /\ environment' = [environment EXCEPT !.available = ~@]
    /\ UNCHANGED <<db, ids, sessions, resp, family, engine, SessionLocal, created,
                   threads>>

----------------------------------------------------------------------------
(* A child create as two steps other requests may come between: the        *)
(* handler SELECTs the trip and builds the row, and db.commit() sends the  *)
(* INSERT, which the store checks against the foreign key of trip_id.      *)

\* A store that would accept any trip_id
TripFkUnchecked(store, child) == TRUE

\* The foreign key of trip_id, ForeignKey("trips.id", ondelete="CASCADE"),
\* checked by the store when the row is inserted
TripFkHolds(store, child) == RowsById(store.trips, child.trip_id) # {}

\* create_itinerary_item, create_note, create_reminder up to db.add: r is
\* the handler's result on the store it reads; a row that passed the checks
\* waits in the session
CreateChildCheck(s, table, op, r) ==
    /\ sessions[s] = None
    /\ ids[table] < MaxItems
    /\ IF r.status = 201
       THEN /\ sessions' = [sessions EXCEPT ![s] =
                    Some([table |-> table, op |-> op, row |-> r.body[1]])]
            /\ ids' = [ids EXCEPT ![table] = @ + 1]
            /\ UNCHANGED resp
       ELSE /\ resp' = Response(op, r)
            /\ UNCHANGED <<sessions, ids>>
    /\ UNCHANGED <<db, family, process>>

\* db.commit(): the INSERT, refused with IntegrityError when the trip is gone
CreateChildInsert(s) ==
    /\ sessions[s] # None
    /\ LET p == sessions[s][1]
       IN  IF TripFkHolds(db, p.row) /\ (p.table = "items" => DestinationFkHolds(db, p.row))
           THEN /\ db' = [db EXCEPT ![p.table] = @ \cup {p.row}]
                /\ resp' = [op |-> p.op, status |-> 201, detail |-> "",
                            body |-> Some(p.row)]
           ELSE /\ resp' = Unhandled(p.op, IntegrityError)
                /\ UNCHANGED db
    /\ sessions' = [sessions EXCEPT ![s] = None]
    /\ UNCHANGED <<ids, family, process>>

----------------------------------------------------------------------------
(* Specifications.  A run addresses one resource family: the handlers of   *)
(* different child resources share no rows, and the trips they read need   *)
(* only exist.  The cascade and references families use plain payloads.   *)

Families == {"trips", "itinerary", "notes", "reminders", "cascade", "references"}

WideIds == 1..MaxWideRows

NoResponse == [op |-> "", status |-> 0, detail |-> "", body |-> None]

InitStore ==
    /\ db = EmptyDb
    /\ ids = [trips |-> 0, destinations |-> 0, items |-> 0, notes |-> 0, reminders |-> 0]
    /\ sessions = [s \in SessionIds |-> None]
    /\ resp = NoResponse
    /\ WarmProcess

Init == InitStore /\ family \in Families

NextTrips ==
    \/ \E payload \in TripCreatePayloads : CreateTrip(payload, 1)
    \/ \E t \in TripIds : GetTrip(t)
    \/ \E t \in TripIds, payload \in TripUpdatePayloads : UpdateTrip(t, payload)
    \/ \E t \in TripIds : DeleteTrip(t)

NextPlainTrips ==
    \/ \E payload \in PlainTripPayloads : CreateTrip(payload, 1)
    \/ \E t \in TripIds : DeleteTrip(t)

NextItinerary ==
    \/ NextPlainTrips
    \/ \E t \in TripIds, payload \in ItemCreatePayloads :
            CreateItineraryItem(t, payload, MaxWideRows)
    \/ \E t \in TripIds, i \in WideIds : GetItineraryItem(t, i)
    \/ \E t \in TripIds, i \in WideIds, payload \in ItemUpdatePayloads :
            UpdateItineraryItem(t, i, payload)
    \/ \E t \in TripIds, i \in WideIds : DeleteItineraryItem(t, i)

NextNotes ==
    \/ NextPlainTrips
    \/ \E t \in TripIds, payload \in NoteCreatePayloads, now \in Dates :
            CreateNote(t, payload, now)
    \/ \E t \in TripIds, n \in NoteIds : GetNote(t, n)
    \/ \E t \in TripIds, n \in NoteIds, payload \in NoteUpdatePayloads :
            UpdateNote(t, n, payload)
    \/ \E t \in TripIds, n \in NoteIds : DeleteNote(t, n)

NextReminders ==
    \/ NextPlainTrips
    \/ \E t \in TripIds, payload \in ReminderCreatePayloads, now \in Dates :
            CreateReminder(t, payload, now)
    \/ \E t \in TripIds, n \in ReminderIds : GetReminder(t, n)
    \/ \E t \in TripIds, n \in ReminderIds, payload \in ReminderUpdatePayloads :
            UpdateReminder(t, n, payload)
    \/ \E t \in TripIds, n \in ReminderIds : DeleteReminder(t, n)

NextCascade ==
    \/ NextPlainTrips
    \/ \E t \in TripIds, payload \in PlainItemCreatePayloads :
            CreateItineraryItem(t, payload, MaxWideRows)
    \/ \E t \in TripIds, i \in WideIds : DeleteItineraryItem(t, i)
    \/ \E t \in TripIds, payload \in PlainNoteCreatePayloads : CreateNote(t, payload, 1)
    \/ \E t \in TripIds, n \in NoteIds : DeleteNote(t, n)
    \/ \E t \in TripIds, payload \in PlainReminderCreatePayloads :
            CreateReminder(t, payload, 1)
    \/ \E t \in TripIds, n \in ReminderIds : DeleteReminder(t, n)

NextReferences ==
    \/ NextPlainTrips
    \/ \E fields \in DestinationRows : InsertDestination(fields)
    \/ \E d \in DestinationIds : DeleteDestination(d)
    \/ \E t \in TripIds, payload \in PlainItemCreatePayloads :
            CreateItineraryItem(t, payload, MaxItems)
    \/ \E t \in TripIds, i \in ItemIds, payload \in PlainItemUpdatePayloads :
            UpdateItineraryItem(t, i, payload)
    \/ \E t \in TripIds, i \in ItemIds : DeleteItineraryItem(t, i)

Next ==
    \/ family = "trips" /\ NextTrips
    \/ family = "itinerary" /\ NextItinerary
    \/ family = "notes" /\ NextNotes
    \/ family = "reminders" /\ NextReminders
    \/ family = "cascade" /\ NextCascade
    \/ family = "references" /\ NextReferences

Spec == Init /\ [][Next]_vars

InitTrips == InitStore /\ family = "trips"
SpecTrips == InitTrips /\ [][NextTrips]_vars

InitItinerary == InitStore /\ family = "itinerary"
SpecItinerary == InitItinerary /\ [][NextItinerary]_vars

InitNotes == InitStore /\ family = "notes"
SpecNotes == InitNotes /\ [][NextNotes]_vars

InitReminders == InitStore /\ family = "reminders"
SpecReminders == InitReminders /\ [][NextReminders]_vars

InitCascade == InitStore /\ family = "cascade"
SpecCascade == InitCascade /\ [][NextCascade]_vars

InitReferences == InitStore /\ family = "references"
SpecReferences == InitReferences /\ [][NextReferences]_vars

NextTripsInterleaved ==
    \/ NextPlainTrips
    \/ \E s \in SessionIds, t \in TripIds, payload \in DateUpdatePayloads :
            UpdateTripLoad(s, t, payload)
    \/ \E s \in SessionIds : UpdateTripCommit(s)

InitInterleaved == InitStore /\ family = "trips_interleaved"
SpecTripsInterleaved == InitInterleaved /\ [][NextTripsInterleaved]_vars

----------------------------------------------------------------------------
(* List and search requests.  They read the store and never write it, so   *)
(* a run starts from a store the create handlers can have built and then   *)
(* only lists: the trips, the children of two plain trips, or the          *)
(* destinations.                                                           *)

ListTrips(limit, offset, sort_by, sort_dir) ==
    /\ \E r \in list_trips(db, limit, offset, sort_by, sort_dir) :
            resp' = Response("list_trips", r)
    /\ UNCHANGED <<db, ids, sessions, family, process>>

ListItineraryItems(trip_id, limit, offset) ==
    /\ \E r \in list_itinerary_items(db, trip_id, limit, offset) :
            resp' = Response("list_itinerary_items", r)
    /\ UNCHANGED <<db, ids, sessions, family, process>>

ListNotes(trip_id, limit, offset) ==
    /\ \E r \in list_notes(db, trip_id, limit, offset) :
            resp' = Response("list_notes", r)
    /\ UNCHANGED <<db, ids, sessions, family, process>>

ListReminders(trip_id, limit, offset) ==
    /\ \E r \in list_reminders(db, trip_id, limit, offset) :
            resp' = Response("list_reminders", r)
    /\ UNCHANGED <<db, ids, sessions, family, process>>

SearchDestinations(q, limit, offset, include_country, include_city) ==
    /\ \E r \in search_destinations(db, q, limit, offset, include_country, include_city) :
            resp' = Response("search_destinations", r)
    /\ UNCHANGED <<db, ids, sessions, family, process>>

ListFamilies ==
    {"list_trips", "list_itinerary", "list_notes", "list_reminders", "search"}

\* The tables of up to max rows with ids 1..n and the columns of Fields
TablesOf(max, Fields) ==
    UNION {{{[id |-> i] @@ f[i] : i \in 1..n} : f \in [1..n -> Fields]} : n \in 0..max}

ListNames == {<<"a">>, <<"a", "a">>}

ListTripFields ==
    [name : ListNames, start_date : {None}, end_date : {None}, created_at : Dates]

PlainTripRows ==
    {[id |-> i, name |-> <<"a">>, start_date |-> None, end_date |-> None,
      created_at |-> 1] : i \in TripIds}

ListItemFields ==
    [trip_id : TripIds, day : Days, title : ListNames, description : {None},
     start_time : Opt(Dates), end_time : {None}, destination_id : {None}]

ListNoteFields == [trip_id : TripIds, content : {<<"a">>}, created_at : Dates]

ListReminderFields ==
    [trip_id : TripIds, message : {<<"a">>}, remind_at : Dates, created_at : {1}]

SearchDestinationFields ==
    [name : {<<"a">>, <<"A", "b">>}, country : Opt({<<"b">>}),
     city : Opt({<<"a", "_">>}), description : {None}, popularity : Opt({1})]

ListStores(fam) ==
    CASE fam = "list_trips" ->
            {[EmptyDb EXCEPT !.trips = t] : t \in TablesOf(MaxTrips, ListTripFields)}
      [] fam = "list_itinerary" ->
            {[EmptyDb EXCEPT !.trips = PlainTripRows, !.items = t] :
                t \in TablesOf(MaxItems, ListItemFields)}
      [] fam = "list_notes" ->
            {[EmptyDb EXCEPT !.trips = PlainTripRows, !.notes = t] :
                t \in TablesOf(MaxItems, ListNoteFields)}
      [] fam = "list_reminders" ->
            {[EmptyDb EXCEPT !.trips = PlainTripRows, !.reminders = t] :
                t \in TablesOf(MaxItems, ListReminderFields)}
      [] fam = "search" ->
            {[EmptyDb EXCEPT !.destinations = t] :
                t \in TablesOf(MaxDestinations, SearchDestinationFields)}

InitLists ==
    /\ family \in ListFamilies
    /\ db \in ListStores(family)
    /\ ids = [k \in DOMAIN db |-> Cardinality(db[k])]
    /\ sessions = [s \in SessionIds |-> None]
    /\ resp = NoResponse
    /\ WarmProcess

NextListTrips ==
    \E limit \in Limits, offset \in Offsets, sort_by \in SortBys, sort_dir \in SortDirs :
        ListTrips(limit, offset, sort_by, sort_dir)

NextListItinerary ==
    \E t \in TripIds, limit \in Limits, offset \in Offsets :
        ListItineraryItems(t, limit, offset)

NextListNotes ==
    \E t \in TripIds, limit \in Limits, offset \in Offsets : ListNotes(t, limit, offset)

NextListReminders ==
    \E t \in TripIds, limit \in Limits, offset \in Offsets :
        ListReminders(t, limit, offset)

\* The queries of the runs: too short, blank, plain, and one wildcard character
RunQueries == {<<>>, <<" ">>, <<"a">>, <<" ", "b">>, <<"_">>}

NextSearch ==
    \E q \in RunQueries, limit \in Limits, offset \in Offsets,
       include_country \in BOOLEAN, include_city \in BOOLEAN :
        SearchDestinations(q, limit, offset, include_country, include_city)

NextLists ==
    \/ family = "list_trips" /\ NextListTrips
    \/ family = "list_itinerary" /\ NextListItinerary
    \/ family = "list_notes" /\ NextListNotes
    \/ family = "list_reminders" /\ NextListReminders
    \/ family = "search" /\ NextSearch

SpecLists == InitLists /\ [][NextLists]_vars

----------------------------------------------------------------------------
(* A list request as the two statements it executes.  The engine is        *)
(* created without an isolation level, so the transaction is READ          *)
(* COMMITTED: each statement reads the rows committed when it starts.      *)

ListOps == {"list_trips", "list_itinerary_items"}

\* A limit that is refused and one that is not, the first page and the
\* page after the first row
ListQueries ==
    [op : {"list_trips"}, trip_id : {1}, limit : {0, MaxLimit}, offset : {0, 1},
     sort_by : {"created_at"}, sort_dir : {"asc"}] \cup
    [op : {"list_itinerary_items"}, trip_id : TripIds, limit : {0, MaxLimit},
     offset : {0, 1}, sort_by : {"created_at"}, sort_dir : {"asc"}]

\* The rows a list query matches
Matching(store, q) ==
    IF q.op = "list_trips" THEN store.trips ELSE OfTrip(store.items, q.trip_id)

\* The pairs its ORDER BY decides
Before(store, q) ==
    IF q.op = "list_trips"
    THEN {<<x, y>> \in store.trips \X store.trips :
            TripOrder(x, y, q.sort_by, q.sort_dir) < 0}
    ELSE {<<x, y>> \in store.items \X store.items : ItemOrder(x, y) < 0}

\* list_trips up to line 107, list_itinerary_items up to line 96: the
\* parameters are validated, the trip of an item list is looked up, and
\* select(func.count()) is executed
ListCount(s, q) ==
    /\ sessions[s] = None
    /\ IF ~ListQuery_valid(q.limit, q.offset)
       THEN /\ resp' = Response(q.op, ListError(422, ValidationDetail))
            /\ UNCHANGED sessions
       ELSE IF q.op = "list_itinerary_items" /\ RowsById(db.trips, q.trip_id) = {}
       THEN /\ resp' = Response(q.op, ListError(404, TripNotFound))
            /\ UNCHANGED sessions
       ELSE /\ sessions' = [sessions EXCEPT ![s] =
                    Some([query |-> q, total |-> Cardinality(Matching(db, q))])]
            /\ UNCHANGED resp
    /\ UNCHANGED <<db, ids, family, process>>

\* list_trips lines 108-110, list_itinerary_items lines 98-107: the page
\* statement, and the response built from both results
ListPage(s) ==
    /\ sessions[s] # None
    /\ LET q == sessions[s][1].query
       IN  \E o \in Orderings(Matching(db, q), Before(db, q)) :
                resp' = Response(q.op,
                            ListResponse(sessions[s][1].total, q.limit, q.offset,
                                         Page(o, q.limit, q.offset)))
    /\ sessions' = [sessions EXCEPT ![s] = None]
    /\ UNCHANGED <<db, ids, family, process>>

----------------------------------------------------------------------------
(* Requests through get_db on the worker threads of one process.  The      *)
(* store holds one trip and one of its items, as create_trip and           *)
(* create_itinerary_item leave them; the requests are the health probe and *)
(* updates of the item that succeed, are refused, or fail in the store.    *)

ProcessStore ==
    [EmptyDb EXCEPT
        !.trips = {[id |-> 1, name |-> <<"a">>, start_date |-> None, end_date |-> None,
                    created_at |-> 1]},
        !.items = {[id |-> 1, trip_id |-> 1, day |-> 1, title |-> <<"a">>,
                    description |-> None, start_time |-> None, end_time |-> None,
                    destination_id |-> None]}]

NoItemUpdate ==
    [day |-> None, title |-> None, description |-> None, start_time |-> None,
     end_time |-> None, destination_id |-> None]

\* A day with a blank title (422 after the day is assigned), a new day
\* (200), and a destination that does not exist (the commit fails)
ProcessPayloads ==
    {[NoItemUpdate EXCEPT !.day = Some(MaxDay), !.title = Some(<<" ">>)],
     [NoItemUpdate EXCEPT !.day = Some(MaxDay)],
     [NoItemUpdate EXCEPT !.day = Some(MaxDay), !.destination_id = Some(1)]}

\* The probe, the updates of the item, and an update under a trip that is missing
ProcessRequests ==
    {<<"db_health_check", None>>} \cup
    {<<"update_itinerary_item", Some([trip_id |-> 1, item_id |-> 1, payload |-> p])>> :
        p \in ProcessPayloads} \cup
    {<<"update_itinerary_item",
       Some([trip_id |-> MaxTrips, item_id |-> 1, payload |-> NoItemUpdate])>>}

InitProcess ==
    /\ family = "process"
    /\ db = ProcessStore
    /\ ids = [k \in DOMAIN db |-> Cardinality(db[k])]
    /\ sessions = [s \in SessionIds |-> None]
    /\ resp = NoResponse
    /\ ColdProcess
    /\ environment \in [configured : BOOLEAN, available : BOOLEAN]

\* The statements of a request in flight
ThreadStep(t) ==
    \/ SessionmakerCheck(t)
    \/ EngineCheck(t)
    \/ GetSettings(t)
    \/ CreateEngine(t)
    \/ MakeSessionmaker(t)
    \/ OpenSession(t)
    \/ Handle(t)
    \/ Close(t)

NextProcess ==
    \/ \E t \in ThreadIds, rq \in ProcessRequests : Begin(t, rq[1], rq[2])
    \/ \E t \in ThreadIds : ThreadStep(t)
    \/ Outage

SpecProcess == InitProcess /\ [][NextProcess]_vars

\* The same requests in a process whose globals are initialised: get_db
\* reaches its try at once.  A thread with a request in flight is
\* scheduled again, which is the fairness of the run.
InitSessions ==
    /\ family = "sessions"
    /\ db = ProcessStore
    /\ ids = [k \in DOMAIN db |-> Cardinality(db[k])]
    /\ sessions = [s \in SessionIds |-> None]
    /\ resp = NoResponse
    /\ WarmProcess

SessionStep(t) ==
    \/ SessionmakerCheck(t)
    \/ OpenSession(t)
    \/ Handle(t)
    \/ Close(t)

NextSessions ==
    \/ \E t \in ThreadIds, rq \in ProcessRequests : Begin(t, rq[1], rq[2])
    \/ \E t \in ThreadIds : SessionStep(t)
    \/ Outage

SpecSessions ==
    InitSessions /\ [][NextSessions]_vars /\ \A t \in ThreadIds : WF_vars(SessionStep(t))

----------------------------------------------------------------------------
(* Child creates in two steps, interleaved with create_trip and delete_trip *)

NextCreateDelete ==
    \/ NextPlainTrips
    \/ \E s \in SessionIds, t \in TripIds, payload \in PlainItemCreatePayloads :
            /\ payload.destination_id = None
            /\ CreateChildCheck(s, "items", "create_itinerary_item",
                    create_itinerary_item(db, ids.items + 1, t, payload))
    \/ \E s \in SessionIds, t \in TripIds, payload \in PlainNoteCreatePayloads :
            CreateChildCheck(s, "notes", "create_note",
                    create_note(db, ids.notes + 1, t, payload, 1))
    \/ \E s \in SessionIds, t \in TripIds, payload \in PlainReminderCreatePayloads :
            CreateChildCheck(s, "reminders", "create_reminder",
                    create_reminder(db, ids.reminders + 1, t, payload, 1))
    \/ \E s \in SessionIds : CreateChildInsert(s)

InitCreateDelete == InitStore /\ family = "create_delete"
SpecCreateDelete == InitCreateDelete /\ [][NextCreateDelete]_vars

----------------------------------------------------------------------------
(* List requests in two statements, with creates and deletes in between *)

NextListsInterleaved ==
    \/ NextPlainTrips
    \/ \E t \in TripIds, payload \in PlainItemCreatePayloads :
            payload.destination_id = None /\ CreateItineraryItem(t, payload, MaxItems)
    \/ \E t \in TripIds, i \in ItemIds : DeleteItineraryItem(t, i)
    \/ \E s \in SessionIds, q \in ListQueries : ListCount(s, q)
    \/ \E s \in SessionIds : ListPage(s)

InitListsInterleaved == InitStore /\ family = "lists_interleaved"
SpecListsInterleaved == InitListsInterleaved /\ [][NextListsInterleaved]_vars

----------------------------------------------------------------------------
(* Deletes.  A run starts from a store the create handlers can have built: *)
(* two trips, a destination, and up to MaxItems items, notes and reminders *)
(* under either trip; then trips, children and the destination are deleted. *)

DeleteItemFields ==
    [trip_id : TripIds, day : {1}, title : {<<"a">>}, description : {None},
     start_time : {None}, end_time : {None}, destination_id : Opt({1})]

DeleteNoteFields == [trip_id : TripIds, content : {<<"a">>}, created_at : {1}]

DeleteReminderFields ==
    [trip_id : TripIds, message : {<<"a">>}, remind_at : {1}, created_at : {1}]

DeleteStores ==
    {[trips |-> PlainTripRows,
      destinations |-> {[id |-> 1] @@ f : f \in DestinationRows},
      items |-> i, notes |-> n, reminders |-> r] :
        i \in TablesOf(MaxItems, DeleteItemFields),
        n \in TablesOf(MaxItems, DeleteNoteFields),
        r \in TablesOf(MaxItems, DeleteReminderFields)}

InitDeletes ==
    /\ family = "deletes"
    /\ db \in DeleteStores
    /\ ids = [k \in DOMAIN db |-> Cardinality(db[k])]
    /\ sessions = [s \in SessionIds |-> None]
    /\ resp = NoResponse
    /\ WarmProcess

NextDeletes ==
    \/ \E t \in TripIds : DeleteTrip(t)
    \/ \E t \in TripIds, i \in ItemIds : DeleteItineraryItem(t, i)
    \/ \E t \in TripIds, i \in ItemIds : DeleteNote(t, i)
    \/ \E t \in TripIds, i \in ItemIds : DeleteReminder(t, i)
    \/ \E d \in DestinationIds : DeleteDestination(d)

SpecDeletes == InitDeletes /\ [][NextDeletes]_vars

----------------------------------------------------------------------------
(* Properties *)

TripExists(t) == RowsById(db.trips, t) # {}

Both(s, e) == s # None /\ e # None

\* end < start with both present, as the data model orders dates and times
Inverted(s, e) == Both(s, e) /\ e[1] < s[1]

PickTime(given, stored) == IF given # None THEN given ELSE stored

\* Constant input sets of the properties below
InvertedTripCreates ==
    {p \in TripCreatePayloads : Inverted(p.start_date, p.end_date)}

InvertedItemCreates ==
    {p \in ItemCreatePayloads : Inverted(p.start_time, p.end_time)}

OneTimeUpdates ==
    {p \in ItemUpdatePayloads : (p.start_time # None) # (p.end_time # None)}

NoTimeUpdates ==
    {p \in ItemUpdatePayloads : p.start_time = None /\ p.end_time = None}

\* C1: in every reachable state every trip that has both start_date and
\* end_date has end_date >= start_date, also when two update_trip requests on
\* the same trip interleave between their SELECT and their UPDATE.
C1_TripDatesOrdered ==
    \A t \in db.trips : ~Inverted(t.start_date, t.end_date)

\* C2: update_itinerary_item checks end_time >= start_time on the merged
\* record: for an item with both times set, an update that provides exactly one
\* time and makes the stored-plus-provided pair inverted is rejected with 422
\* and changes nothing, and an update that provides neither time never fails
\* the temporal check.
C2_MergedTimesChecked ==
    \A item \in db.items :
        (TripExists(item.trip_id) /\ Both(item.start_time, item.end_time)) =>
            /\ \A p \in OneTimeUpdates :
                    LET r == update_itinerary_item(db, item.trip_id, item.id, p)
                    IN  Inverted(PickTime(p.start_time, item.start_time),
                                       PickTime(p.end_time, item.end_time))
                            => (r.status = 422 /\ r.db = db)
            /\ \A p \in NoTimeUpdates :
                    update_itinerary_item(db, item.trip_id, item.id, p).detail
                        # EndTimeDetail

\* C2 witness: an update of an item with both times set has just been rejected
\* by the temporal check, and a one-field update of that item is among the
\* requests the check rejects.
C2_Witness ==
    /\ resp.op = "update_itinerary_item"
    /\ resp.status = 422
    /\ resp.detail = EndTimeDetail
    /\ \E item \in db.items :
        /\ Both(item.start_time, item.end_time)
        /\ \E p \in OneTimeUpdates :
            /\ ItineraryItemUpdate_valid(p)
            /\ p.title = None
            /\ Inverted(PickTime(p.start_time, item.start_time),
                              PickTime(p.end_time, item.end_time))

\* C3: for trips and itinerary items, a create or update whose resulting record
\* would have end < start (both present) returns 422 and leaves the persisted
\* store identical: no row is created and no field of the target changes.
C3_InvertedRejectedNoChange ==
    /\ \A p \in InvertedTripCreates :
            LET r == create_trip(db, ids.trips + 1, p, 1)
            IN  r.status = 422 /\ r.db = db
    /\ \A trip \in db.trips, p \in TripUpdatePayloads :
            LET r == update_trip(db, trip.id, p)
            IN  Inverted(PickTime(p.start_date, trip.start_date),
                               PickTime(p.end_date, trip.end_date))
                    => (r.status = 422 /\ r.db = db)
    /\ \A trip \in db.trips, p \in InvertedItemCreates :
            LET r == create_itinerary_item(db, ids.items + 1, trip.id, p)
            IN  r.status = 422 /\ r.db = db
    /\ \A item \in db.items, p \in ItemUpdatePayloads :
            LET r == update_itinerary_item(db, item.trip_id, item.id, p)
            IN  (/\ TripExists(item.trip_id)
                 /\ Inverted(PickTime(p.start_time, item.start_time),
                                   PickTime(p.end_time, item.end_time)))
                    => (r.status = 422 /\ r.db = db)

\* C3 witness: an update_trip of a stored trip has just been rejected for its
\* dates, and the trip still holds a date.
C3_Witness ==
    /\ resp.op = "update_trip"
    /\ resp.status = 422
    /\ resp.detail = EndDateDetail
    /\ \E trip \in db.trips : trip.start_date # None \/ trip.end_date # None

\* Requests on a child of one trip addressed through another, existing trip
ForeignTrips(child) == {t \in db.trips : t.id # child.trip_id}

ValidItemUpdates == {p \in ItemUpdatePayloads : ItineraryItemUpdate_valid(p)}

NotFoundNoData(r, detail) ==
    r.status = 404 /\ r.detail = detail /\ r.body = None /\ r.db = db

ChildTables == {"items", "notes", "reminders"}

NoOrphanRows ==
    \A k \in ChildTables : \A c \in db[k] : TripExists(c.trip_id)

\* C5: delete_trip on an existing trip removes, in one step, the trip and every
\* itinerary item, note and reminder whose trip_id is that trip, and nothing
\* else; no state holds a child whose trip is gone.
C5_CascadeAtomic ==
    /\ []NoOrphanRows
    /\ [][(resp'.op = "delete_trip" /\ resp'.status = 204) =>
            \E t \in db.trips :
                db' = [db EXCEPT
                        !.trips = @ \ {t},
                        !.items = {c \in @ : c.trip_id # t.id},
                        !.notes = {c \in @ : c.trip_id # t.id},
                        !.reminders = {c \in @ : c.trip_id # t.id}]]_vars

\* C5 witness: one trip was ever created, an item, a note and a reminder were
\* created under it, and a delete_trip has left all four tables empty.
C5_Witness ==
    /\ resp.op = "delete_trip"
    /\ resp.status = 204
    /\ ids.trips = 1 /\ ids.items = 1 /\ ids.notes = 1 /\ ids.reminders = 1
    /\ db.trips = {} /\ db.items = {} /\ db.notes = {} /\ db.reminders = {}

\* C6: deleting a destination that itinerary items reference succeeds, keeps
\* every such item with all its other fields, sets destination_id of exactly
\* those items to empty, and leaves the items of other destinations untouched.
C6_DestinationNullified ==
    [][resp'.op = "delete_destination" =>
        \E d \in db.destinations :
            /\ db'.destinations = db.destinations \ {d}
            /\ db'.items = {IF c.destination_id = Some(d.id)
                            THEN [c EXCEPT !.destination_id = None]
                            ELSE c : c \in db.items}
            /\ db'.trips = db.trips
            /\ db'.notes = db.notes
            /\ db'.reminders = db.reminders]_vars

\* C6 witness: a destination was deleted while another remains; one stored
\* item has no destination and another still references the remaining one.
C6_Witness ==
    /\ resp.op = "delete_destination"
    /\ Cardinality(db.destinations) = 1
    /\ \E c1 \in db.items, c2 \in db.items :
        /\ c1.destination_id = None
        /\ c2.destination_id # None
        /\ RowsById(db.destinations, c2.destination_id[1]) # {}

Blank(text) == Strip(text) = <<>>

\* C7: POST /trips with a name that is empty after trimming is rejected with
\* 422 and adds no trip: no stored trip has a blank name, and create_trip never
\* answers with a created trip whose name is blank.
C7_BlankTripNameRejected ==
    /\ \A t \in db.trips : ~Blank(t.name)
    /\ (resp.op = "create_trip" /\ resp.body # None) => ~Blank(resp.body[1].name)

\* C8: in every reachable state every stored itinerary item title, note content
\* and reminder message is non-empty after trimming whitespace.
C8_StoredTextNotBlank ==
    /\ \A c \in db.items : ~Blank(c.title)
    /\ \A c \in db.notes : ~Blank(c.content)
    /\ \A c \in db.reminders : ~Blank(c.message)

\* C9: in every reachable state every stored trip name, itinerary item title,
\* note content and reminder message equals its own trimmed form.
C9_StoredTextTrimmed ==
    /\ \A t \in db.trips : t.name = Strip(t.name)
    /\ \A c \in db.items : c.title = Strip(c.title)
    /\ \A c \in db.notes : c.content = Strip(c.content)
    /\ \A c \in db.reminders : c.message = Strip(c.message)

BlankNameUpdates ==
    {p \in TripUpdatePayloads : p.name # None /\ Blank(p.name[1])}

BlankTitleUpdates ==
    {p \in ValidItemUpdates : p.title # None /\ Blank(p.title[1])}

BlankContentUpdates ==
    {p \in NoteUpdatePayloads : p.content # None /\ Blank(p.content[1])}

BlankMessageUpdates ==
    {p \in ReminderUpdatePayloads : p.message # None /\ Blank(p.message[1])}

\* C10: an update rejected because a text field is blank after trimming (trip
\* name, item title, note content, reminder message) answers 422 and writes
\* nothing: the store is unchanged and a following get returns the record with
\* every field at its value before the request, also the fields of the same
\* payload that the handler assigned before the failing check.
C10_BlankUpdateWritesNothing ==
    /\ \A t \in db.trips : \A p \in BlankNameUpdates :
            LET r == update_trip(db, t.id, p)
            IN  /\ r.status = 422
                /\ r.db = db
                /\ get_trip(r.db, t.id).body = Some(t)
    /\ \A c \in db.items : \A p \in BlankTitleUpdates :
            LET r == update_itinerary_item(db, c.trip_id, c.id, p)
            IN  TripExists(c.trip_id) =>
                    /\ r.status = 422
                    /\ r.db = db
                    /\ get_itinerary_item(r.db, c.trip_id, c.id).body = Some(c)
    /\ \A c \in db.notes : \A p \in BlankContentUpdates :
            LET r == update_note(db, c.trip_id, c.id, p)
            IN  TripExists(c.trip_id) =>
                    /\ r.status = 422
                    /\ r.db = db
                    /\ get_note(r.db, c.trip_id, c.id).body = Some(c)
    /\ \A c \in db.reminders : \A p \in BlankMessageUpdates :
            LET r == update_reminder(db, c.trip_id, c.id, p)
            IN  TripExists(c.trip_id) =>
                    /\ r.status = 422
                    /\ r.db = db
                    /\ get_reminder(r.db, c.trip_id, c.id).body = Some(c)

\* C10 witness: an update_itinerary_item has just been rejected for its blank
\* title, and a blank-title update that also provides another day is among the
\* requests on the stored item.
C10_Witness ==
    /\ resp.op = "update_itinerary_item"
    /\ resp.status = 422
    /\ resp.detail = TitleBlank
    /\ \E c \in db.items : \E p \in BlankTitleUpdates :
            p.day # None /\ p.day[1] # c.day

\* The trips that do not exist in the store
MissingTrips == {t \in TripIds : ~TripExists(t)}

ExistingTrips == {t \in TripIds : TripExists(t)}

Created(r, trip_id) == r.status = 201 => r.body[1].trip_id = trip_id

MismatchRejected(r) == r.status = 422 /\ r.db = db

\* C11: creating an itinerary item, note or reminder under an existing trip T
\* with a payload whose trip_id differs from T is answered 422 (not 404) and
\* stores nothing, neither under T nor under the trip of the payload; every
\* child that is created has the trip_id of the path, in the response and in
\* the store.
C11_TripIdMismatchRejected ==
    /\ \A t \in ExistingTrips :
        /\ \A p \in ItemCreatePayloads :
                LET r == create_itinerary_item(db, ids.items + 1, t, p)
                IN  (p.trip_id # t => MismatchRejected(r)) /\ Created(r, t)
        /\ \A p \in NoteCreatePayloads :
                LET r == create_note(db, ids.notes + 1, t, p, 1)
                IN  (p.trip_id # t => MismatchRejected(r)) /\ Created(r, t)
        /\ \A p \in ReminderCreatePayloads :
                LET r == create_reminder(db, ids.reminders + 1, t, p, 1)
                IN  (p.trip_id # t => MismatchRejected(r)) /\ Created(r, t)
    /\ (resp.op = "create_itinerary_item" /\ resp.status = 201) =>
            resp.body[1] \in db.items
    /\ (resp.op = "create_note" /\ resp.status = 201) => resp.body[1] \in db.notes
    /\ (resp.op = "create_reminder" /\ resp.status = 201) =>
            resp.body[1] \in db.reminders

\* C11 witness: both trips exist, and the last request, a create_note whose
\* payload named the other trip, was rejected for the mismatch and stored no
\* note.
C11_Witness ==
    /\ resp.op = "create_note"
    /\ resp.status = 422
    /\ resp.detail = TripIdMismatch
    /\ ExistingTrips = TripIds
    /\ db.notes = {}

\* C12, as the claim states it: a child create whose path trip does not exist
\* returns 404 whatever else is wrong with the payload, field-level constraint
\* violations (day < 1) included.
C12_ParentCheckedFirst ==
    \A t \in MissingTrips :
        /\ \A p \in ItemCreatePayloads :
                create_itinerary_item(db, ids.items + 1, t, p).status = 404
        /\ \A p \in NoteCreatePayloads :
                create_note(db, ids.notes + 1, t, p, 1).status = 404
        /\ \A p \in ReminderCreatePayloads :
                create_reminder(db, ids.reminders + 1, t, p, 1).status = 404

NotFoundOrInvalid(r, valid) ==
    /\ r.db = db
    /\ IF valid
       THEN r.status = 404 /\ r.detail = TripNotFound
       ELSE r.status = 422 /\ r.detail = ValidationDetail

\* C12, amended: a child create whose path trip does not exist returns 404
\* whenever its payload satisfies the field-level constraints of the schema,
\* whatever the handler would object to (trip_id mismatch, blank text,
\* end_time < start_time); a payload that violates a field-level constraint
\* (day < 1) is answered 422 before the trip is looked up.  Nothing is stored
\* either way.
C12_ParentCheckedBeforeHandlerChecks ==
    \A t \in MissingTrips :
        /\ \A p \in ItemCreatePayloads :
                NotFoundOrInvalid(create_itinerary_item(db, ids.items + 1, t, p),
                                  ItineraryItemCreate_valid(p))
        /\ \A p \in NoteCreatePayloads :
                NotFoundOrInvalid(create_note(db, ids.notes + 1, t, p, 1), TRUE)
        /\ \A p \in ReminderCreatePayloads :
                NotFoundOrInvalid(create_reminder(db, ids.reminders + 1, t, p, 1),
                                  ReminderCreate_valid(p))

\* C12 witness: one trip exists, the other does not, and the last request, a
\* create_reminder on a path whose trip does not exist, was answered 404.
C12_Witness ==
    /\ resp.op = "create_reminder"
    /\ resp.status = 404
    /\ resp.detail = TripNotFound
    /\ ExistingTrips # {}
    /\ MissingTrips # {}

TextFields == {"name", "title", "content", "message"}

OptionalColumns ==
    {"start_date", "end_date", "description", "start_time", "end_time", "destination_id"}

\* The record a partial update must leave: provided fields replaced (text
\* trimmed), every other field as it was
Expected(old, payload) ==
    [f \in DOMAIN old |->
        IF f \in DOMAIN payload /\ payload[f] # None
        THEN IF f \in TextFields THEN Strip(payload[f][1])
             ELSE IF f \in OptionalColumns THEN payload[f]
             ELSE payload[f][1]
        ELSE old[f]]

Framed(r, table, old, payload) ==
    r.status = 200 =>
        /\ r.body = Some(Expected(old, payload))
        /\ r.db = [db EXCEPT ![table] = (@ \ {old}) \cup {Expected(old, payload)}]

TripUpdatesFramed ==
    \A t \in db.trips : \A p \in TripUpdatePayloads :
        Framed(update_trip(db, t.id, p), "trips", t, p)

ItemUpdatesFramed ==
    \A c \in db.items : \A p \in ItemUpdatePayloads \cup PlainItemUpdatePayloads :
        Framed(update_itinerary_item(db, c.trip_id, c.id, p), "items", c, p)

NoteUpdatesFramed ==
    \A c \in db.notes : \A p \in NoteUpdatePayloads :
        Framed(update_note(db, c.trip_id, c.id, p), "notes", c, p)

ReminderUpdatesFramed ==
    \A c \in db.reminders : \A p \in ReminderUpdatePayloads :
        Framed(update_reminder(db, c.trip_id, c.id, p), "reminders", c, p)

\* C13: for every successful partial update of a trip, itinerary item, note or
\* reminder, each field omitted from the payload keeps its value, and each
\* field provided has the provided value (trimmed for the text fields), in the
\* returned entity and in the store; no other row changes.
C13_PartialUpdateFramed ==
    /\ TripUpdatesFramed
    /\ ItemUpdatesFramed
    /\ NoteUpdatesFramed
    /\ ReminderUpdatesFramed

\* The fields of a row that hold a value still hold one in the result's row
KeepsValues(r, table, old) ==
    \A new \in r.db[table] :
        new.id = old.id =>
            \A f \in OptionalColumns \cap DOMAIN old : old[f] # None => new[f] # None

\* What the handlers receive for the update bodies, null fields included
ParsedTripBodies == {ParseBody(b) : b \in TripUpdateBodies}

ParsedItemBodies == {ParseBody(b) : b \in ItemUpdateBodies}

\* C14: no update request resets a field to empty: for every stored trip and
\* itinerary item and every update body, also one that sends fields as null,
\* each of start_date, end_date, description, start_time, end_time and
\* destination_id that held a value holds a value after the request.
C14_UpdateNeverClears ==
    /\ \A t \in db.trips : \A p \in ParsedTripBodies :
            KeepsValues(update_trip(db, t.id, p), "trips", t)
    /\ \A c \in db.items : \A p \in ParsedItemBodies :
            KeepsValues(update_itinerary_item(db, c.trip_id, c.id, p), "items", c)

\* C14 witness: an update_trip has just succeeded on a trip that holds both
\* dates, and a body that sends start_date as null is among the requests.
C14_Witness ==
    /\ resp.op = "update_trip"
    /\ resp.status = 200
    /\ \E t \in db.trips :
        /\ Both(t.start_date, t.end_date)
        /\ resp.body = Some(t)
        /\ \E b \in TripUpdateBodies :
                b.start_date.present /\ b.start_date.value = None

\* C15: the trip_id, id and created_at of an itinerary item, note or reminder
\* never change: in every step, and so after every sequence of update requests
\* through any trip path, each child that is still stored has the trip_id and
\* created_at it had, and no two rows share an id.
C15_ChildOwnershipFixed ==
    [][\A k \in ChildTables : \A old \in db[k] : \A new \in db'[k] :
            new.id = old.id =>
                /\ new.trip_id = old.trip_id
                /\ k # "items" => new.created_at = old.created_at
                /\ Cardinality({c \in db'[k] : c.id = old.id}) = 1]_vars

\* C15 witness: an update_note has just succeeded and the updated note is
\* stored under one of two existing trips.
C15_Witness ==
    /\ resp.op = "update_note"
    /\ resp.status = 200
    /\ resp.body # None
    /\ resp.body[1] \in db.notes
    /\ ExistingTrips = TripIds

Issued(k) == 1..ids[k]

Stored(k) == {r.id : r \in db[k]}

\* Every id that was handed out and is not stored is answered NotFound
DeletedIsNotFound ==
    /\ \A i \in Issued("trips") \ Stored("trips") : get_trip(db, i).status = 404
    /\ \A t \in TripIds :
        /\ \A i \in Issued("items") \ Stored("items") :
                get_itinerary_item(db, t, i).status = 404
        /\ \A i \in Issued("notes") \ Stored("notes") :
                get_note(db, t, i).status = 404
        /\ \A i \in Issued("reminders") \ Stored("reminders") :
                get_reminder(db, t, i).status = 404
    /\ \A k \in ChildTables : \A c \in db[k] :
            ~TripExists(c.trip_id) =>
                \A t \in TripIds :
                    /\ get_itinerary_item(db, t, c.id).status = 404
                    /\ get_note(db, t, c.id).status = 404
                    /\ get_reminder(db, t, c.id).status = 404

DeleteOps ==
    [delete_trip |-> "trips", delete_itinerary_item |-> "items",
     delete_note |-> "notes", delete_reminder |-> "reminders"]

\* A delete answered 204 removes a row of its table, children of a deleted
\* trip included
DeleteRemoves ==
    \A op \in DOMAIN DeleteOps :
        (resp'.op = op /\ resp'.status = 204) =>
            /\ \E gone \in Stored(DeleteOps[op]) :
                    {r.id : r \in db'[DeleteOps[op]]} = Stored(DeleteOps[op]) \ {gone}
            /\ \A k \in ChildTables : \A c \in db'[k] :
                    RowsById(db'.trips, c.trip_id) # {}

\* An id that was handed out and is gone is never stored again
GoneStaysGone ==
    \A k \in DOMAIN ids : \A i \in Issued(k) \ Stored(k) :
        /\ i \notin {r.id : r \in db'[k]}
        /\ i <= ids'[k]

\* C16: after a successful delete of a trip, itinerary item, note or reminder,
\* every later get of the same id, and of the ids of a deleted trip's
\* children, is answered NotFound, whatever requests come in between: the
\* delete removes the row, a removed id is never stored again, and an id that
\* is not stored is NotFound through every trip path.
C16_DeletedStaysNotFound ==
    /\ []DeletedIsNotFound
    /\ [][DeleteRemoves /\ GoneStaysGone]_vars

\* C16 witness: the only note ever created was deleted by the last request
\* while its trip is still stored.
C16_Witness ==
    /\ resp.op = "delete_note"
    /\ resp.status = 204
    /\ ids.notes = 1
    /\ db.notes = {}
    /\ db.trips # {}

ValidLimits == {l \in Limits : l >= LimitMin} \cup {LimitMax}

Range(seq) == {seq[i] : i \in DOMAIN seq}

\* Every response of the set is a page of at most limit items that reports n
TotalIs(results, limit, n) ==
    \A r \in results :
        /\ r.status = 200
        /\ r.body[1].total = n
        /\ Len(r.body[1].items) <= limit

\* The number of rows the complete result of a search holds
FullCount(q, include_country, include_city) ==
    Cardinality(UNION {Range(r.body[1].items) :
        r \in search_destinations(db, q, LimitMax, 0, include_country, include_city)})

SearchableQueries == {q \in Queries : Strip(q) # <<>>}

\* C17: on an unchanging store every list and search response reports as
\* total the number of all rows in scope (all trips; all children of the path
\* trip; all destinations the search returns over all pages), whatever limit
\* and offset are, and returns at most limit items.
C17_TotalIgnoresPagination ==
    \A limit \in ValidLimits, offset \in Offsets :
        /\ \A sort_by \in SortBys, sort_dir \in SortDirs :
                TotalIs(list_trips(db, limit, offset, sort_by, sort_dir), limit,
                        Cardinality(db.trips))
        /\ \A t \in ExistingTrips :
            /\ TotalIs(list_itinerary_items(db, t, limit, offset), limit,
                       Cardinality({c \in db.items : c.trip_id = t}))
            /\ TotalIs(list_notes(db, t, limit, offset), limit,
                       Cardinality({c \in db.notes : c.trip_id = t}))
            /\ TotalIs(list_reminders(db, t, limit, offset), limit,
                       Cardinality({c \in db.reminders : c.trip_id = t}))
        /\ \A q \in RunQueries \cap SearchableQueries, ic \in BOOLEAN, ici \in BOOLEAN :
                TotalIs(search_destinations(db, q, limit, offset, ic, ici), limit,
                        FullCount(q, ic, ici))

\* C17 witness: a search has just returned one item of two matching rows.
C17_Witness ==
    /\ resp.op = "search_destinations"
    /\ resp.status = 200
    /\ resp.body[1].total = 2
    /\ resp.body[1].limit = 1
    /\ Len(resp.body[1].items) = 1

ItemsOf(results) == {r.body[1].items : r \in results}

\* Whatever the store answers to each request, the pages at offsets 0, limit,
\* 2*limit, ... of a result of n rows share no row and hold n rows together;
\* pages[i] is the set of pages the store may return at offset i * limit
PagesPartition(pages, limit, n) ==
    /\ \A i \in 0..n : \A page \in pages[i] :
        /\ Len(page) = Min(limit, IF n > i * limit THEN n - i * limit ELSE 0)
        /\ Cardinality(Range(page)) = Len(page)
    /\ \A i \in 0..n, j \in 0..n :
            i < j => \A p1 \in pages[i], p2 \in pages[j] :
                        Range(p1) \cap Range(p2) = {}

TripPagesPartition ==
    \A limit \in ValidLimits, sort_by \in SortBys, sort_dir \in SortDirs :
        PagesPartition([i \in 0..Cardinality(db.trips) |->
                            ItemsOf(list_trips(db, limit, i * limit, sort_by, sort_dir))],
                       limit, Cardinality(db.trips))

ItemPagesPartition ==
    \A limit \in ValidLimits, t \in ExistingTrips :
        LET n == Cardinality({c \in db.items : c.trip_id = t})
        IN  PagesPartition([i \in 0..n |->
                                ItemsOf(list_itinerary_items(db, t, limit, i * limit))],
                           limit, n)

NotePagesPartition ==
    \A limit \in ValidLimits, t \in ExistingTrips :
        LET n == Cardinality({c \in db.notes : c.trip_id = t})
        IN  PagesPartition([i \in 0..n |-> ItemsOf(list_notes(db, t, limit, i * limit))],
                           limit, n)

ReminderPagesPartition ==
    \A limit \in ValidLimits, t \in ExistingTrips :
        LET n == Cardinality({c \in db.reminders : c.trip_id = t})
        IN  PagesPartition([i \in 0..n |->
                                ItemsOf(list_reminders(db, t, limit, i * limit))],
                           limit, n)

SearchPagesPartition ==
    \A limit \in ValidLimits, q \in SearchableQueries, ic \in BOOLEAN, ici \in BOOLEAN :
        LET n == FullCount(q, ic, ici)
        IN  PagesPartition([i \in 0..n |->
                                ItemsOf(search_destinations(db, q, limit, i * limit, ic, ici))],
                           limit, n)

\* C18: on an unchanging store and a fixed sort order the consecutive pages of
\* list_trips, list_itinerary_items, list_notes, list_reminders and
\* search_destinations do not overlap and together hold every matching row
\* exactly once, also when rows have equal sort keys.
C18_PagesPartitionResult ==
    /\ TripPagesPartition
    /\ ItemPagesPartition
    /\ NotePagesPartition
    /\ ReminderPagesPartition
    /\ SearchPagesPartition

\* q occurs in t as a literal substring
Contains(t, q) ==
    \E i \in 0..(Len(t) - Len(q)) : SubSeq(t, i + 1, i + Len(q)) = q

ContainsNoCase(column, q) ==
    column # None /\ Contains(LowerText(column[1]), LowerText(q))

LiteralMatch(d, q, include_country, include_city) ==
    \/ ContainsNoCase(Some(d.name), q)
    \/ include_country /\ ContainsNoCase(d.country, q)
    \/ include_city /\ ContainsNoCase(d.city, q)

SearchIsLiteral(queries) ==
    \A q \in queries, ic \in BOOLEAN, ici \in BOOLEAN :
        \A r \in search_destinations(db, q, LimitMax, 0, ic, ici) :
            /\ r.status = 200
            /\ {row.id : row \in Range(r.body[1].items)}
                    = {d.id : d \in {x \in db.destinations :
                                        LiteralMatch(x, Strip(q), ic, ici)}}

\* C19: for every non-blank query, also one containing % or _, the search
\* returns exactly the destinations in which the trimmed query occurs,
\* compared case-insensitively, as a literal substring of name, of country
\* when include_country is true, or of city when include_city is true; a null
\* country or city never matches.
C19_SearchMatchesLiterally == SearchIsLiteral(SearchableQueries)

\* x may come before y: day ascending, then start_time ascending with the
\* items without start_time last, then title ascending
InListOrder(x, y) ==
    \/ x.day < y.day
    \/ /\ x.day = y.day
       /\ \/ x.start_time # None /\ y.start_time = None
          \/ Both(x.start_time, y.start_time) /\ x.start_time[1] < y.start_time[1]
          \/ /\ x.start_time = y.start_time
             /\ CmpText(x.title, y.title) <= 0

\* C20: list_itinerary_items returns the items of the path trip, each once
\* when the page is large enough, ordered by day ascending, then start_time
\* ascending with the items without start_time after those of the same day
\* that have one, then title ascending; no item of another trip appears.
C20_ItineraryOrdered ==
    \A t \in ExistingTrips :
        /\ \A r \in list_itinerary_items(db, t, LimitMax, 0) :
                /\ Range(r.body[1].items) = {c \in db.items : c.trip_id = t}
                /\ Len(r.body[1].items) = Cardinality({c \in db.items : c.trip_id = t})
        /\ \A limit \in ValidLimits, offset \in Offsets :
            \A r \in list_itinerary_items(db, t, limit, offset) :
                /\ \A c \in Range(r.body[1].items) : c \in db.items /\ c.trip_id = t
                /\ \A i, j \in DOMAIN r.body[1].items :
                        i < j => InListOrder(r.body[1].items[i], r.body[1].items[j])

\* C20 witness: the list just returned two items of one day, the first with a
\* start_time and the second without.
C20_Witness ==
    /\ resp.op = "list_itinerary_items"
    /\ resp.status = 200
    /\ Len(resp.body[1].items) = 2
    /\ resp.body[1].items[1].day = resp.body[1].items[2].day
    /\ resp.body[1].items[1].start_time # None
    /\ resp.body[1].items[2].start_time = None

----------------------------------------------------------------------------
(* C21-C27: the process, interleaved requests, references and frames *)

Probing(t) == threads[t].op = "db_health_check"

\* The handler of thread t answers in this step while the store is down
SelectFails(t) ==
    /\ Probing(t) /\ threads[t].pc = "yield" /\ threads'[t].pc = "finally"
    /\ ~environment.available

\* get_db of thread t raises in this step, before a session exists
AcquireFails(t) ==
    /\ Probing(t) /\ threads[t].pc \in {"get_settings", "assert"}
    /\ threads'[t].pc = "idle"

MarksUnavailable(r) ==
    /\ r.op = "db_health_check"
    /\ r.status = 503
    /\ r.body # None
    /\ "database" \in DOMAIN r.body[1]
    /\ r.body[1].database = "unavailable"

\* C21: a probe of an unavailable store completes with a response that marks
\* the database unavailable under status 503, both when SELECT 1 fails and
\* when acquiring the session fails.
C21_ProbeNonFatal ==
    [][\A t \in ThreadIds :
            (SelectFails(t) \/ AcquireFails(t)) => MarksUnavailable(resp')]_vars

Open(t) == threads[t].session # None /\ threads[t].session[1].closes = 0

Closed(t) == threads[t].session # None /\ threads[t].session[1].closes = 1

\* A session is open while its request runs and closed once when it has ended
ClosedOnceAtEnd ==
    \A t \in ThreadIds :
        /\ threads[t].pc \in {"yield", "finally"} => Open(t)
        /\ threads[t].pc = "idle" /\ threads[t].session # None => Closed(t)

\* The close of thread t's session in this step writes nothing
CloseWritesNothing ==
    \A t \in ThreadIds :
        threads[t].pc = "finally" /\ threads'[t].pc = "idle" => db' = db

\* C22: every session get_db acquires is eventually closed, exactly once,
\* when its request ends, whether the handler returned, raised 404 or 422,
\* or failed in the store; the close persists no uncommitted change.
C22_SessionClosedOnce ==
    /\ []ClosedOnceAtEnd
    /\ [][CloseWritesNothing]_vars
    /\ \A t \in ThreadIds : Open(t) ~> Closed(t)

\* A refused update that had assigned the day has ended: its session is
\* closed once and the stored day is the old one
C22_Witness ==
    \E t \in ThreadIds :
        /\ threads[t].pc = "idle" /\ Closed(t)
        /\ threads[t].status = 422
        /\ \A i \in db.items : i.day = 1

\* The engines the sessions of the process are bound to
Binds == {threads[t].session[1].bind : t \in {u \in ThreadIds : threads[u].session # None}}

AssertionHolds == resp.detail # "AssertionError"

\* C26: under any interleaving of first requests at most one engine is
\* created, every session is bound to that one engine, and the assertion of
\* _get_sessionmaker never fails.
C26_EngineInitialisedOnce ==
    /\ created <= 1
    /\ Cardinality(Binds) <= 1
    /\ AssertionHolds

ChildCreates == {"create_itinerary_item", "create_note", "create_reminder"}

\* The INSERT of a session whose trip is gone fails and stores nothing
InsertAfterDeleteRefused ==
    \A s \in SessionIds :
        (/\ sessions[s] # None /\ sessions'[s] = None
         /\ RowsById(db.trips, sessions[s][1].row.trip_id) = {})
        => db' = db /\ resp'.op \in ChildCreates /\ resp'.status = 500

\* C23: every stored item, note and reminder names an existing trip, also
\* when delete_trip comes between the trip lookup and the INSERT of a child
\* create; that create leaves no row behind.
C23_NoOrphanChild ==
    /\ [](\A k \in ChildTables : \A c \in db[k] : RowsById(db.trips, c.trip_id) # {})
    /\ [][InsertAfterDeleteRefused]_vars

\* A create passed its trip lookup, the trip was deleted, and the INSERT failed
C23_Witness ==
    /\ resp.op \in ChildCreates /\ resp.detail = IntegrityError
    /\ db.trips = {} /\ ids.trips = 1
    /\ \A k \in ChildTables : db[k] = {}

Max(a, b) == IF a > b THEN a ELSE b

ListedBy(ops) == resp.op \in ops /\ resp.status = 200

\* The response holds as many items as its total, limit and offset imply
CountConsistent ==
    LET b == resp.body[1]
    IN  Len(b.items) = Min(b.limit, Max(0, b.total - b.offset))

\* C24: every list response holds min(limit, max(0, total - offset)) items,
\* also when rows are created or deleted between the count and the page
\* statement of the handler.
C24_ListCountConsistent == ListedBy(ListOps) => CountConsistent

Dangling(store, payload) ==
    /\ payload.destination_id # None
    /\ RowsById(store.destinations, payload.destination_id[1]) = {}

\* The request stored nothing and did not succeed
Refused(r) == r.db = db /\ r.status >= 400

\* C25: every stored item has no destination_id or that of an existing
\* destination; a create or update that names a destination that does not
\* exist stores no such id and leaves the store unchanged.
C25_DestinationReferenceValid ==
    /\ \A i \in db.items :
            i.destination_id # None => RowsById(db.destinations, i.destination_id[1]) # {}
    /\ \A t \in TripIds, payload \in PlainItemCreatePayloads :
            Dangling(db, payload) =>
                Refused(create_itinerary_item(db, ids.items + 1, t, payload))
    /\ \A t \in TripIds, i \in ItemIds, payload \in PlainItemUpdatePayloads :
            Dangling(db, payload) => Refused(update_itinerary_item(db, t, i, payload))

\* An update that names a missing destination has failed in the store while
\* an item refers to the destination that exists
C25_Witness ==
    /\ resp.op = "update_itinerary_item" /\ resp.detail = IntegrityError
    /\ \E i \in db.items : i.destination_id # None
    /\ Cardinality(db.destinations) = 1

\* The rows of table k that belong to other trips than trip_id
OfOthers(store, k, trip_id) == {c \in store[k] : c.trip_id # trip_id}

\* delete_trip of trip_id changed nothing but the trip and its children
TripDeleteFrame(after, trip_id) ==
    /\ {t \in after.trips : t.id # trip_id} = {t \in db.trips : t.id # trip_id}
    /\ \A k \in ChildTables : OfOthers(after, k, trip_id) = OfOthers(db, k, trip_id)
    /\ after.destinations = db.destinations

\* The delete of row id of table k under trip_id changed nothing but that row
ChildDeleteFrame(after, k, trip_id, id) ==
    /\ \A j \in DOMAIN db : j # k => after[j] = db[j]
    /\ after[k] \subseteq db[k]
    /\ \A c \in db[k] : ~(c.id = id /\ c.trip_id = trip_id) => c \in after[k]

\* C27: delete_trip leaves every other trip, the children of other trips and
\* the destinations unchanged; the delete of one item, note or reminder
\* leaves its trip, its siblings of all three kinds and the rows of other
\* trips unchanged.
C27_DeletesTouchOnlyTarget ==
    /\ \A t \in TripIds : TripDeleteFrame(delete_trip(db, t).db, t)
    /\ \A t \in TripIds, i \in ItemIds :
            /\ ChildDeleteFrame(delete_itinerary_item(db, t, i).db, "items", t, i)
            /\ ChildDeleteFrame(delete_note(db, t, i).db, "notes", t, i)
            /\ ChildDeleteFrame(delete_reminder(db, t, i).db, "reminders", t, i)

\* A reminder was deleted; its sibling reminder, a note and an item of the
\* same trip and a note of the other trip are still stored
C27_Witness ==
    /\ resp.op = "delete_reminder" /\ resp.status = 204
    /\ \E t \in TripIds :
        /\ Cardinality(OfTrip(db.reminders, t)) = 1 /\ ids.reminders = MaxItems
        /\ OfTrip(db.notes, t) # {} /\ OfTrip(db.items, t) # {}
        /\ OfOthers(db, "notes", t) # {}

====
